---- MODULE Spec2Model ----
(***************************************************************************)
(* A model of openapi-typings-gen: the schema -> TypeNode mapper, the two  *)
(* renderers (static types and zod validators), the operation IR builder,  *)
(* the declaration assemblers and the command line front end.              *)
(*                                                                         *)
(* Strings of the program are TLA+ strings; JavaScript objects whose key   *)
(* order matters are sequences of <<key, value>> pairs in declaration      *)
(* order; an optional value is <<>> (undefined) or <<v>>.                  *)
(***************************************************************************)
EXTENDS Integers, Sequences, FiniteSets, TLC

VARIABLES
    node,        \* renderer run: the TypeNode handed to the renderers
    processing,  \* renderer run: the set of names given to renderZod
    tsOut,       \* renderer run: <<>> or <<result of renderType(node)>>
    zodOut,      \* renderer run: <<>> or <<result of renderZod(node, processing)>>
    argv,        \* pipeline run: process.argv
    doc,         \* pipeline run: the bundled OpenAPI document
    pc,          \* pipeline run: position in main / generateTypes
    opts,        \* pipeline run: the result of parseArgs
    operations,  \* pipeline run: OperationIR[] of generateIROperations
    components,  \* pipeline run: ComponentIR[] of generateComponentTypes
    out,         \* pipeline run: the rendered blocks of generateTypes
    graph,       \* mapper run: the heap of schema objects, graph[i] being [ptr |-> i]
    stack,       \* mapper run: the active calls of mapSchemaToTypeNode, innermost last
    mapOut,      \* mapper run: <<>> or <<the TypeNode the outermost call returned>>
    history      \* repeated run: the results of the earlier calls made in this process

vars ==
    <<node, processing, tsOut, zodOut, argv, doc, pc, opts, operations, components, out,
      graph, stack, mapOut, history>>

renderVars == <<node, processing, tsOut, zodOut>>
pipeVars == <<argv, doc, pc, opts, operations, components, out>>
mapVars == <<graph, stack, mapOut>>

(***************************************************************************)
(* Bounds of the model.                                                    *)
(***************************************************************************)
MaxTypes == 3       \* most branches of a union / intersection node handed to a renderer
MaxProps == 2       \* most properties of an object node handed to a renderer

(***************************************************************************)
(* Strings.                                                                *)
(***************************************************************************)
LowerChars == "abcdefghijklmnopqrstuvwxyz"
UpperChars == "ABCDEFGHIJKLMNOPQRSTUVWXYZ"
DigitChars == "0123456789"

CharAt(s, i) == SubSeq(s, i, i)
CharsOf(s) == {CharAt(s, i) : i \in 1..Len(s)}
IndexIn(s, c) == CHOOSE i \in 1..Len(s) : CharAt(s, i) = c

LowerSet == CharsOf(LowerChars)
UpperSet == CharsOf(UpperChars)
DigitSet == CharsOf(DigitChars)

IsLower(c) == c \in LowerSet
IsUpper(c) == c \in UpperSet
IsDigit(c) == c \in DigitSet
IsLetter(c) == IsLower(c) \/ IsUpper(c)

ToUpperChar(c) == IF IsLower(c) THEN CharAt(UpperChars, IndexIn(LowerChars, c)) ELSE c
ToLowerChar(c) == IF IsUpper(c) THEN CharAt(LowerChars, IndexIn(UpperChars, c)) ELSE c

\* String.prototype.startsWith / endsWith / includes
StartsWith(s, p) == Len(p) <= Len(s) /\ SubSeq(s, 1, Len(p)) = p
EndsWith(s, p) == Len(p) <= Len(s) /\ SubSeq(s, Len(s) - Len(p) + 1, Len(s)) = p
Contains(s, sub) ==
    \E i \in 1..(Len(s) - Len(sub) + 1) : SubSeq(s, i, i + Len(sub) - 1) = sub
\* the number of positions of s at which sub starts
Occurrences(s, sub) ==
    Cardinality({i \in 1..(Len(s) - Len(sub) + 1) : SubSeq(s, i, i + Len(sub) - 1) = sub})

\* Array.prototype.join
RECURSIVE Join(_, _)
Join(strs, sep) ==
    IF Len(strs) = 0 THEN ""
    ELSE IF Len(strs) = 1 THEN strs[1]
    ELSE strs[1] \o sep \o Join(Tail(strs), sep)

\* Array.prototype.includes on a sequence
Includes(seq, x) == \E i \in 1..Len(seq) : seq[i] = x

\* lodash upperFirst
upperFirst(s) == IF Len(s) = 0 THEN "" ELSE ToUpperChar(CharAt(s, 1)) \o Tail(s)

\* decimal digits of a natural number (Number.prototype.toString)
RECURSIVE NatToStr(_)
NatToStr(n) ==
    IF n < 10 THEN CharAt(DigitChars, n + 1)
    ELSE NatToStr(n \div 10) \o CharAt(DigitChars, (n % 10) + 1)

(***************************************************************************)
(* JavaScript values carried by literal nodes and enum lists.              *)
(***************************************************************************)
JStr(s) == [type |-> "string", str |-> s]
JNum(n) == [type |-> "number", num |-> n]
JBool(b) == [type |-> "boolean", bool |-> b]
JNull == [type |-> "null"]

JsonEscapeChar(c) == IF c = "\"" THEN "\\\"" ELSE IF c = "\\" THEN "\\\\" ELSE c

RECURSIVE JsonEscape(_)
JsonEscape(s) ==
    IF Len(s) = 0 THEN "" ELSE JsonEscapeChar(CharAt(s, 1)) \o JsonEscape(Tail(s))

\* JSON.stringify of a string, number, boolean or null
JsonStringify(v) ==
    CASE v.type = "string" -> "\"" \o JsonEscape(v.str) \o "\""
      [] v.type = "number" -> IF v.num < 0 THEN "-" \o NatToStr(-v.num) ELSE NatToStr(v.num)
      [] v.type = "boolean" -> IF v.bool THEN "true" ELSE "false"
      [] v.type = "null" -> "null"

(***************************************************************************)
(* Name sanitizer.                                                         *)
(***************************************************************************)
SafeNameChar(c) == IF IsLetter(c) \/ IsDigit(c) \/ c = "_" THEN c ELSE "_"

\* name.replace(/[^a-zA-Z0-9_]/g, '_')
RECURSIVE toSafeName(_)
toSafeName(name) ==
    IF Len(name) = 0 THEN "" ELSE SafeNameChar(CharAt(name, 1)) \o toSafeName(Tail(name))

\* /^[$A-Z_][0-9A-Z_$]*$/i.test(name)
isSafeParam(name) ==
    /\ Len(name) > 0
    /\ LET c == CharAt(name, 1) IN IsLetter(c) \/ c = "$" \/ c = "_"
    /\ \A i \in 2..Len(name) :
          LET c == CharAt(name, i) IN IsLetter(c) \/ IsDigit(c) \/ c = "_" \/ c = "$"

safeParamName(name) == IF isSafeParam(name) THEN name ELSE "\"" \o name \o "\""

(***************************************************************************)
(* JavaScript property order: Object.entries lists the keys that are array *)
(* indices first, in ascending numeric order, then the other string keys   *)
(* in insertion order.                                                     *)
(***************************************************************************)
RECURSIVE StrToNat(_)
StrToNat(s) ==
    IF Len(s) = 0 THEN 0
    ELSE 10 * StrToNat(SubSeq(s, 1, Len(s) - 1)) + (IndexIn(DigitChars, CharAt(s, Len(s))) - 1)

IsArrayIndex(k) ==
    /\ Len(k) > 0
    /\ Len(k) <= 9
    /\ \A i \in 1..Len(k) : IsDigit(CharAt(k, i))
    /\ (Len(k) > 1 => CharAt(k, 1) # "0")

RECURSIVE SortByIndex(_)
SortByIndex(pairs) ==
    IF Len(pairs) = 0 THEN <<>>
    ELSE LET m == CHOOSE i \in 1..Len(pairs) :
                    \A j \in 1..Len(pairs) : StrToNat(pairs[i][1]) <= StrToNat(pairs[j][1])
             rest == [j \in 1..(Len(pairs) - 1) |-> IF j < m THEN pairs[j] ELSE pairs[j + 1]]
         IN <<pairs[m]>> \o SortByIndex(rest)

ObjectEntries(pairs) ==
    SortByIndex(SelectSeq(pairs, LAMBDA p : IsArrayIndex(p[1])))
        \o SelectSeq(pairs, LAMBDA p : ~IsArrayIndex(p[1]))

ObjectKeys(pairs) == LET e == ObjectEntries(pairs) IN [i \in 1..Len(e) |-> e[i][1]]
ObjectValues(pairs) == LET e == ObjectEntries(pairs) IN [i \in 1..Len(e) |-> e[i][2]]

(***************************************************************************)
(* TypeNode: the intermediate representation.  A node is a record with a   *)
(* kind and the fields of that kind; an identifier built from a schema     *)
(* carries the schema's own nullable mark (identifier spreads the schema   *)
(* into the node).  Nodes of the model carry no description or example.    *)
(***************************************************************************)
identifier(name) == [kind |-> "identifier", name |-> name, nullable |-> FALSE]
identifierOf(name, nullable) == [kind |-> "identifier", name |-> name, nullable |-> nullable]
union(types) == [kind |-> "union", types |-> types]
intersection(types) == [kind |-> "intersection", types |-> types]
generic(base, params) == [kind |-> "generic", base |-> base, params |-> params]
literal(value) == [kind |-> "literal", value |-> value]
arrayOf(element) == [kind |-> "array", element |-> element]
\* properties: the pairs <<name, TypeNode>> in insertion order; required: names
objectOf(properties, required) ==
    [kind |-> "object", properties |-> properties, required |-> required]

OpenMapName == "{ [key: string]: any }"

(***************************************************************************)
(* renderType: the static type renderer.                                   *)
(***************************************************************************)
tsArray(elem, elemKind) ==
    IF elemKind = "union" \/ elemKind = "intersection"
    THEN "(" \o elem \o ")[]"
    ELSE elem \o "[]"

tsUnion(parts) == Join(parts, " | ")

tsIntersection(parts) == Join(parts, " & ")

tsOptional(required, name) == IF Includes(required, name) THEN "" ELSE "?"

tsProperty(name, optional, typeStr) ==
    "    " \o safeParamName(name) \o optional \o ": " \o typeStr \o ";"

tsObject(props) == "{\n" \o Join(props, "\n") \o "\n}"

RECURSIVE renderType(_)
renderType(n) ==
    CASE n.kind = "identifier" -> n.name
      [] n.kind = "literal" -> JsonStringify(n.value)
      [] n.kind = "array" -> tsArray(renderType(n.element), n.element.kind)
      [] n.kind = "union" -> tsUnion([i \in 1..Len(n.types) |-> renderType(n.types[i])])
      [] n.kind = "intersection" ->
            tsIntersection([i \in 1..Len(n.types) |-> renderType(n.types[i])])
      [] n.kind = "generic" ->
            renderType(n.base) \o "<"
                \o Join([i \in 1..Len(n.params) |-> renderType(n.params[i])], ", ") \o ">"
      [] n.kind = "object" ->
            LET entries == ObjectEntries(n.properties)
            IN tsObject([i \in 1..Len(entries) |->
                   tsProperty(entries[i][1], tsOptional(n.required, entries[i][1]),
                              renderType(entries[i][2]))])

(***************************************************************************)
(* renderZod: the validator renderer.  It reads node.types[0] and          *)
(* node.types[1] of an intersection; reading the kind of a missing branch  *)
(* raises a TypeError, which renderZodThrows tells.                        *)
(***************************************************************************)
\* a variant: the processing set is ignored and every reference is eager
zodIdentifierEager(name, inProgress) ==
    IF name \in {"string", "number", "boolean"} THEN "z." \o name \o "()"
    ELSE IF name = OpenMapName THEN "z.record(z.string(), z.any())"
    ELSE name \o "Schema"

zodIdentifier(name, inProgress) ==
    IF name \in {"string", "number", "boolean"} THEN "z." \o name \o "()"
    ELSE IF name = OpenMapName THEN "z.record(z.string(), z.any())"
    ELSE IF name \in inProgress THEN "z.lazy(() => " \o name \o "Schema)"
    ELSE name \o "Schema"

zodLiteral(value) == "z.literal(" \o JsonStringify(value) \o ")"

\* a variant: the element inherits an optional suffix
zodArrayOptionalElem(elem) == "z.array(" \o elem \o ".optional())"

zodArray(elem) == "z.array(" \o elem \o ")"

zodUnion(parts) == "z.union([" \o Join(parts, ", ") \o "])"

zodIntersection(first, second) == "z.intersection(" \o first \o ", " \o second \o ")"

\* a variant: every property is marked optional
zodRequiredAlways(required, key) == ".optional()"

zodRequired(required, key) == IF Includes(required, key) THEN "" ELSE ".optional()"

zodProperty(key, val, n, required) == "\"" \o key \o "\": " \o val \o required

zodObject(props) == "z.object({ " \o Join(props, ", ") \o " })"

RECURSIVE renderZodThrows(_)
renderZodThrows(n) ==
    CASE n.kind = "array" -> renderZodThrows(n.element)
      [] n.kind = "union" -> \E i \in 1..Len(n.types) : renderZodThrows(n.types[i])
      [] n.kind = "intersection" ->
            \/ Len(n.types) < 2
            \/ renderZodThrows(n.types[1])
            \/ renderZodThrows(n.types[2])
      [] n.kind = "generic" ->
            \/ renderZodThrows(n.base)
            \/ \E i \in 1..Len(n.params) : renderZodThrows(n.params[i])
      [] n.kind = "object" ->
            \E i \in 1..Len(n.properties) : renderZodThrows(n.properties[i][2])
      [] OTHER -> FALSE

RECURSIVE renderZod(_, _)
renderZod(n, inProgress) ==
    CASE n.kind = "identifier" -> zodIdentifier(n.name, inProgress)
      [] n.kind = "literal" -> zodLiteral(n.value)
      [] n.kind = "array" -> zodArray(renderZod(n.element, inProgress))
      [] n.kind = "union" ->
            zodUnion([i \in 1..Len(n.types) |-> renderZod(n.types[i], inProgress)])
      [] n.kind = "intersection" ->
            zodIntersection(renderZod(n.types[1], inProgress),
                            renderZod(n.types[2], inProgress))
      [] n.kind = "generic" ->
            renderZod(n.base, inProgress) \o "<"
                \o Join([i \in 1..Len(n.params) |-> renderZod(n.params[i], inProgress)], ", ")
                \o ">"
      [] n.kind = "object" ->
            LET entries == ObjectEntries(n.properties)
            IN zodObject([i \in 1..Len(entries) |->
                   zodProperty(entries[i][1], renderZod(entries[i][2], inProgress),
                               entries[i][2], zodRequired(n.required, entries[i][1]))])

(***************************************************************************)
(* The renderer run: a caller hands one TypeNode (and a processing set) to *)
(* renderType and to renderZod.                                            *)
(***************************************************************************)
SeqsUpTo(S, n) == UNION {[1..k -> S] : k \in 0..n}

IsInjective(f) == \A i, j \in DOMAIN f : f[i] = f[j] => i = j

PetRef == "Components.Schemas.Pet"

LeafNodes ==
    {identifier(n) : n \in {"string", "number", "boolean", OpenMapName, "any", "NodeA", PetRef}}
        \cup {identifierOf("string", TRUE), identifierOf(PetRef, TRUE)}
        \cup {literal(JStr("ControlRoom")), literal(JStr("A")), literal(JNum(1)),
              literal(JBool(TRUE)), literal(JNull)}

BranchLeaves ==
    {identifier("string"), identifier("number"), identifier("NodeA"), identifier(PetRef),
     literal(JStr("ControlRoom")), literal(JNull)}

PropLeaves ==
    {identifier("string"), identifier("number"), identifierOf("string", TRUE),
     identifierOf(PetRef, TRUE), identifier("NodeA")}

PropKeys == {"id", "age", "child"}

\* the subsequences of a sequence of keys
RECURSIVE SubSeqsOf(_)
SubSeqsOf(keys) ==
    IF Len(keys) = 0 THEN {<<>>}
    ELSE LET rest == SubSeqsOf(Tail(keys))
         IN rest \cup {<<keys[1]>> \o r : r \in rest}

FlatObjects ==
    UNION {
        UNION {
            {objectOf([i \in 1..Len(ks) |-> <<ks[i], vs[i]>>], req) :
                vs \in [1..Len(ks) -> PropLeaves], req \in SubSeqsOf(ks)}
            : ks \in {k \in [1..n -> PropKeys] : IsInjective(k)}}
        : n \in 0..MaxProps}

FlatNodes ==
    LeafNodes
        \cup {arrayOf(l) : l \in LeafNodes}
        \cup {union(ts) : ts \in SeqsUpTo(BranchLeaves, MaxTypes)}
        \cup {intersection(ts) : ts \in SeqsUpTo(BranchLeaves, MaxTypes)}
        \cup FlatObjects

MidLeaves == {identifier("string"), identifier("NodeA"), literal(JStr("A"))}

MidNodes ==
    {arrayOf(l) : l \in MidLeaves}
        \cup {union(<<l>>) : l \in MidLeaves}
        \cup {union(<<l, m>>) : l \in MidLeaves, m \in MidLeaves}
        \cup {intersection(<<l, m>>) : l \in MidLeaves, m \in MidLeaves}
        \cup {objectOf(<<<<"name", l>>>>, req) : l \in MidLeaves, req \in {<<>>, <<"name">>}}

NestedNodes ==
    {arrayOf(m) : m \in MidNodes}
        \cup {union(<<m>>) : m \in MidNodes}
        \cup {union(<<l, m>>) : l \in MidLeaves, m \in MidNodes}
        \cup {union(<<m, l>>) : l \in MidLeaves, m \in MidNodes}
        \cup {intersection(<<l, m>>) : l \in MidLeaves, m \in MidNodes}
        \cup {intersection(<<m, l>>) : l \in MidLeaves, m \in MidNodes}
        \cup {objectOf(<<<<"profile", m>>>>, req) : m \in MidNodes, req \in {<<>>, <<"profile">>}}
        \cup {objectOf(<<<<"id", l>>, <<"profile", m>>>>, req) :
                l \in MidLeaves, m \in MidNodes, req \in {<<"id">>, <<"profile">>}}

RenderNodes == FlatNodes \cup NestedNodes

ProcessingSets == {{}, {"NodeA"}, {"NodeA", PetRef}, {"string", OpenMapName}}

NoZod == [done |-> FALSE, threw |-> FALSE, str |-> ""]

IdleDoc == [schemas |-> <<>>, paths |-> <<>>]
IdleOpts == [keepNoOpId |-> FALSE]
IdleOut == [components |-> "", paths |-> "", ops |-> "", pathDict |-> "", zodMapping |-> "",
            combined |-> ""]

MapIdle ==
    /\ graph = <<>>
    /\ stack = <<>>
    /\ mapOut = <<>>

PipeIdle ==
    /\ argv = <<>>
    /\ doc = IdleDoc
    /\ pc = "idle"
    /\ opts = IdleOpts
    /\ operations = <<>>
    /\ components = <<>>
    /\ out = IdleOut

InitRender ==
    /\ node \in RenderNodes
    /\ processing \in ProcessingSets
    /\ tsOut = <<>>
    /\ zodOut = NoZod
    /\ PipeIdle
    /\ MapIdle
    /\ history = <<>>

\* a call of renderType(node)
CallRenderType ==
    /\ pc = "idle"
    /\ tsOut = <<>>
    /\ tsOut' = <<renderType(node)>>
    /\ UNCHANGED <<node, processing, zodOut>>
    /\ UNCHANGED pipeVars
    /\ UNCHANGED mapVars
    /\ UNCHANGED history

\* a call of renderZod(node, processing); it returns a string or raises
CallRenderZod ==
    /\ pc = "idle"
    /\ ~zodOut.done
    /\ zodOut' = IF renderZodThrows(node)
                 THEN [done |-> TRUE, threw |-> TRUE, str |-> ""]
                 ELSE [done |-> TRUE, threw |-> FALSE, str |-> renderZod(node, processing)]
    /\ UNCHANGED <<node, processing, tsOut>>
    /\ UNCHANGED pipeVars
    /\ UNCHANGED mapVars
    /\ UNCHANGED history

NextRender == CallRenderType \/ CallRenderZod

SpecRender == InitRender /\ [][NextRender]_vars

(***************************************************************************)
(* Schemas.  A schema is a record holding the fields the document gives    *)
(* it (type, properties, items, required, enum, anyOf, oneOf, allOf,       *)
(* nullable); a reference is [ref |-> "#/components/schemas/X"]; an absent *)
(* schema is Undefined.  A schema graph that reaches itself is held in a   *)
(* heap (a sequence of schemas) and [ptr |-> i] stands for the object at   *)
(* heap[i]: two pointers are the same object exactly when they are equal.  *)
(***************************************************************************)
Has(s, field) == field \in DOMAIN s

Undefined == [undefined |-> TRUE]
IsUndefined(s) == Has(s, "undefined")

Ref(path) == [ref |-> path]
Ptr(i) == [ptr |-> i]
Deref(heap, s) == IF Has(s, "ptr") THEN heap[s.ptr] ELSE s

\* !!(s as SchemaRef).$ref
isSchemaRef(s) == Has(s, "ref") /\ s.ref # ""

\* str.split('/').pop()
RECURSIVE LastSegment(_)
LastSegment(str) ==
    IF ~Contains(str, "/") THEN str
    ELSE LastSegment(Tail(str))

(***************************************************************************)
(* mapSchemaToTypeNode: the schema -> TypeNode mapper.                     *)
(***************************************************************************)
\* schema.$ref.split('/').pop() || 'any'
refTargetName(ref) == IF LastSegment(ref) = "" THEN "any" ELSE LastSegment(ref)

\* a variant that names the target as it is written
mapRefVerbatim(schema) == identifier("Components.Schemas." \o refTargetName(schema.ref))

mapRef(schema) == identifier("Components.Schemas." \o toSafeName(refTargetName(schema.ref)))

\* a variant of the guard that looks at the ancestors alone
guardCutsAncestorsOnly(schema, ancestors, depth) == Includes(ancestors, schema)

\* ancestors.includes(schema) || depth > 5
guardCuts(schema, ancestors, depth) == Includes(ancestors, schema) \/ depth > 5

schemaNullable(s) == Has(s, "nullable") /\ s.nullable

\* identifier(schema.type ?? 'any', schema)
guardFallback(s) == identifierOf(IF Has(s, "type") THEN s.type ELSE "any", schemaNullable(s))

mapEnum(s) == union([i \in 1..Len(s.enum) |-> literal(s.enum[i])])

\* a variant of the rules that tests oneOf before allOf
mapRuleOneOfFirst(s) ==
    IF Has(s, "enum") THEN "enum"
    ELSE IF Has(s, "anyOf") THEN "anyOf"
    ELSE IF Has(s, "oneOf") THEN "oneOf"
    ELSE IF Has(s, "allOf") THEN "allOf"
    ELSE IF ~Has(s, "type") THEN "default"
    ELSE IF s.type = "string" THEN "string"
    ELSE IF s.type \in {"integer", "number"} THEN "number"
    ELSE IF s.type = "boolean" THEN "boolean"
    ELSE IF s.type = "array" THEN "array"
    ELSE IF s.type = "object" THEN (IF Has(s, "properties") THEN "object" ELSE "openMap")
    ELSE "default"

\* which rule of the mapper a schema that is no reference and not cut falls under
mapRule(s) ==
    IF Has(s, "enum") THEN "enum"
    ELSE IF Has(s, "anyOf") THEN "anyOf"
    ELSE IF Has(s, "allOf") THEN "allOf"
    ELSE IF Has(s, "oneOf") THEN "oneOf"
    ELSE IF ~Has(s, "type") THEN "default"
    ELSE IF s.type = "string" THEN "string"
    ELSE IF s.type \in {"integer", "number"} THEN "number"
    ELSE IF s.type = "boolean" THEN "boolean"
    ELSE IF s.type = "array" THEN "array"
    ELSE IF s.type = "object" THEN (IF Has(s, "properties") THEN "object" ELSE "openMap")
    ELSE "default"

\* a variant that leaves required empty
mapRequiredEmpty(s) == <<>>

\* schema.required || []
mapRequired(s) == IF Has(s, "required") THEN s.required ELSE <<>>

\* the schemas a call hands to its recursive calls, in call order, each with the
\* ancestors it is given
mapChildren(handle, s, ancestors) ==
    LET rule == mapRule(s)
        same(list) == [i \in 1..Len(list) |-> <<list[i], ancestors>>]
    IN CASE rule = "anyOf" -> same(s.anyOf)
         [] rule = "allOf" -> same(s.allOf)
         [] rule = "oneOf" -> same(s.oneOf)
         [] rule = "array" ->
               <<<<IF Has(s, "items") THEN s.items ELSE Undefined, Append(ancestors, handle)>>>>
         [] rule = "object" ->
               LET entries == ObjectEntries(s.properties)
               IN [i \in 1..Len(entries) |-> <<entries[i][2], Append(ancestors, handle)>>]
         [] OTHER -> <<>>

\* the node a call builds from the nodes its recursive calls returned
mapBuild(s, kids) ==
    LET rule == mapRule(s)
    IN CASE rule = "enum" -> mapEnum(s)
         [] rule = "anyOf" -> union(kids)
         [] rule = "allOf" -> intersection(kids)
         [] rule = "oneOf" -> union(kids)
         [] rule = "string" -> identifierOf("string", schemaNullable(s))
         [] rule = "number" -> identifierOf("number", schemaNullable(s))
         [] rule = "boolean" -> identifierOf("boolean", schemaNullable(s))
         [] rule = "array" -> arrayOf(kids[1])
         [] rule = "object" ->
               LET entries == ObjectEntries(s.properties)
               IN objectOf([i \in 1..Len(entries) |-> <<entries[i][1], kids[i]>>],
                           mapRequired(s))
         [] rule = "openMap" -> identifierOf(OpenMapName, schemaNullable(s))
         [] OTHER -> identifierOf("any", schemaNullable(s))

RECURSIVE mapSchemaToTypeNode(_, _, _, _)
mapSchemaToTypeNode(heap, handle, ancestors, depth) ==
    LET s == Deref(heap, handle)
    IN IF IsUndefined(s) THEN identifier("any")
       ELSE IF isSchemaRef(s) THEN mapRef(s)
       ELSE IF guardCuts(handle, ancestors, depth) THEN guardFallback(s)
       ELSE LET calls == mapChildren(handle, s, ancestors)
            IN mapBuild(s, [i \in 1..Len(calls) |->
                   mapSchemaToTypeNode(heap, calls[i][1], calls[i][2], depth + 1)])

NoHeap == <<>>

\* mapSchemaToTypeNode(schema) with the default ancestors = [] and depth = 0
mapSchema(schema) == mapSchemaToTypeNode(NoHeap, schema, <<>>, 0)

(***************************************************************************)
(* lodash camelCase, on the strings the operation ids are synthesized      *)
(* from: lower-case ASCII letters and ASCII separators (space, '/', '{',   *)
(* '}', '-', '_', '.'), where lodash's words are the maximal runs of       *)
(* letters; apostrophes are deleted before the split.                      *)
(***************************************************************************)
RECURSIVE DropApostrophes(_)
DropApostrophes(s) ==
    IF Len(s) = 0 THEN ""
    ELSE (IF CharAt(s, 1) = "'" THEN "" ELSE CharAt(s, 1)) \o DropApostrophes(Tail(s))

\* the maximal runs of letters of s, in order; cur is the run being read
RECURSIVE WordsFrom(_, _)
WordsFrom(s, cur) ==
    IF Len(s) = 0 THEN (IF cur = "" THEN <<>> ELSE <<cur>>)
    ELSE IF IsLetter(CharAt(s, 1)) THEN WordsFrom(Tail(s), cur \o CharAt(s, 1))
    ELSE (IF cur = "" THEN <<>> ELSE <<cur>>) \o WordsFrom(Tail(s), "")

words(s) == WordsFrom(DropApostrophes(s), "")

RECURSIVE toLower(_)
toLower(s) == IF Len(s) = 0 THEN "" ELSE ToLowerChar(CharAt(s, 1)) \o toLower(Tail(s))

capitalize(s) == upperFirst(toLower(s))

camelCase(s) ==
    LET ws == words(s)
    IN Join([i \in 1..Len(ws) |-> IF i = 1 THEN toLower(ws[i]) ELSE capitalize(ws[i])], "")

\* pathKey.replace(/[\/{}]/g, ' ')
RECURSIVE pathToWords(_)
pathToWords(pathKey) ==
    IF Len(pathKey) = 0 THEN ""
    ELSE (IF CharAt(pathKey, 1) \in {"/", "{", "}"} THEN " " ELSE CharAt(pathKey, 1))
            \o pathToWords(Tail(pathKey))

(***************************************************************************)
(* The document.  doc.paths: pairs <<path, pairs <<method, operation>>>>;  *)
(* an operation is a record holding the fields the document gives it       *)
(* (operationId, parameters, requestBody, responses) or Null; doc.schemas  *)
(* is <<>> when the document has no components.schemas and <<registry>>    *)
(* otherwise, the registry being pairs <<name, schema>>.  Documents of the *)
(* model carry no summary, description or example.                         *)
(***************************************************************************)
Null == [null |-> TRUE]
IsNull(v) == Has(v, "null")

(***************************************************************************)
(* generateComponentTypes                                                  *)
(***************************************************************************)
componentIR(name, schema) == [name |-> toSafeName(name), type |-> mapSchema(schema)]

generateComponentTypes(schemas) ==
    IF schemas = <<>> THEN <<>>
    ELSE LET entries == ObjectEntries(schemas[1])
         IN [i \in 1..Len(entries) |-> componentIR(entries[i][1], entries[i][2])]

(***************************************************************************)
(* generateIROperations                                                    *)
(***************************************************************************)
hasOperationId(op) == Has(op, "operationId") /\ op.operationId # ""

\* a variant that keeps every operation that is not null
keepsOperationAlways(op, keepNoOpId) == ~IsNull(op)

\* if (!op) continue; if (!keepNoOpId && !op.operationId) continue
keepsOperation(op, keepNoOpId) == ~IsNull(op) /\ (keepNoOpId \/ hasOperationId(op))

operationIdOf(method, pathKey, op) ==
    IF hasOperationId(op)
    THEN toSafeName(op.operationId)
    ELSE toSafeName(camelCase(method \o " " \o pathToWords(pathKey)))

\* a variant that takes no parameter for a hint
isTypeHintNever(p) == FALSE

isTypeHint(p) == EndsWith(p.name, "@TypeHint")

filterParams(op) ==
    SelectSeq(IF Has(op, "parameters") THEN op.parameters ELSE <<>>, LAMBDA p : ~isTypeHint(p))

typedParam(p) ==
    [param |-> p,
     typeName |-> upperFirst(toSafeName(p.name)),
     typeNode |-> mapSchema(IF Has(p, "schema") THEN p.schema ELSE Undefined)]

paramsIn(parameters, location) == SelectSeq(parameters, LAMBDA x : x.param.in = location)

mediaSchema(media) == IF Has(media, "schema") THEN media.schema ELSE Undefined

\* the first content entry alone is used
requestBodyOf(op) ==
    IF ~(Has(op, "requestBody") /\ Has(op.requestBody, "content")) THEN <<>>
    ELSE LET first == ObjectEntries(op.requestBody.content)[1]
         IN <<[contentType |-> first[1], type |-> mapSchema(mediaSchema(first[2]))]>>

responseIR(resp) ==
    IF Has(resp, "content")
    THEN LET entries == ObjectEntries(resp.content)
         IN [content |-> <<[i \in 1..Len(entries) |->
                               <<entries[i][1], [schema |-> mediaSchema(entries[i][2])]>>]>>]
    ELSE [content |-> <<>>]

\* a variant that keeps the statuses in the order the document declares them
responsesOfDeclared(op) ==
    LET entries == IF Has(op, "responses") THEN op.responses ELSE <<>>
    IN [i \in 1..Len(entries) |-> <<entries[i][1], responseIR(entries[i][2])>>]

responsesOf(op) ==
    LET entries == ObjectEntries(IF Has(op, "responses") THEN op.responses ELSE <<>>)
    IN [i \in 1..Len(entries) |-> <<entries[i][1], responseIR(entries[i][2])>>]

operationIR(pathKey, method, op) ==
    LET opId == operationIdOf(method, pathKey, op)
        filtered == filterParams(op)
        parameters == [i \in 1..Len(filtered) |-> typedParam(filtered[i])]
    IN [id |-> opId,
        path |-> pathKey,
        method |-> method,
        parameters |-> [cookie |-> paramsIn(parameters, "cookie"),
                        header |-> paramsIn(parameters, "header"),
                        path |-> paramsIn(parameters, "path"),
                        query |-> paramsIn(parameters, "query")],
        summary |-> opId,
        responses |-> responsesOf(op),
        requestBody |-> requestBodyOf(op)]

RECURSIVE Flatten(_)
Flatten(seqs) == IF Len(seqs) = 0 THEN <<>> ELSE seqs[1] \o Flatten(Tail(seqs))

operationsOfPath(pathKey, methods, keepNoOpId) ==
    LET entries == ObjectEntries(methods)
    IN Flatten([i \in 1..Len(entries) |->
           IF keepsOperation(entries[i][2], keepNoOpId)
           THEN <<operationIR(pathKey, entries[i][1], entries[i][2])>>
           ELSE <<>>])

generateIROperations(spec, keepNoOpId) ==
    LET entries == ObjectEntries(spec.paths)
    IN Flatten([i \in 1..Len(entries) |->
           operationsOfPath(entries[i][1], entries[i][2], keepNoOpId)])

(***************************************************************************)
(* renderZodComponents and renderComponents                                *)
(***************************************************************************)
zodDeclaration(name, schemaStr) ==
    "export const " \o name \o "Schema: z.ZodType<any> = " \o schemaStr \o ";"

\* the names renderZod is given while the body of the component called name is rendered
zodProcessingFor(inProgress, name) == inProgress \cup {name}

\* a variant that leaves the name in the set
zodProcessingKept(during, name) == during

\* processing.delete(item.name)
zodProcessingAfter(during, name) == during \ {name}

\* the declarations of items, the processing set being inProgress before the first
RECURSIVE zodDeclarationsFrom(_, _)
zodDeclarationsFrom(items, inProgress) ==
    IF Len(items) = 0 THEN <<>>
    ELSE LET item == items[1]
             during == zodProcessingFor(inProgress, item.name)
             schemaStr == renderZod(item.type, during)
             after == zodProcessingAfter(during, item.name)
         IN <<zodDeclaration(item.name, schemaStr)>> \o zodDeclarationsFrom(Tail(items), after)

renderZodComponents(items) == Join(zodDeclarationsFrom(items, {}), "\n\n")

\* nodes of the model carry no description
renderTypeWithComment(n) == renderType(n)

componentDeclaration(item) ==
    LET exportType == IF item.type.kind = "object" THEN "interface" ELSE "type"
        equals == IF exportType = "type" THEN " =" ELSE ""
    IN "\n            " \o "" \o "\n            export " \o exportType \o " " \o item.name
           \o equals \o " " \o renderTypeWithComment(item.type)

componentAlias(item) == "export type " \o item.name \o " = Components.Schemas." \o item.name

renderComponents(items, zod) ==
    "\n    export namespace Components {\n        export namespace Schemas {\n            "
        \o (IF zod THEN renderZodComponents(items) ELSE "")
        \o "\n\n            "
        \o Join([i \in 1..Len(items) |-> componentDeclaration(items[i])], "\n")
        \o "\n        }\n    }\n    \n    "
        \o Join([i \in 1..Len(items) |-> componentAlias(items[i])], "\n")
        \o "\n    "

(***************************************************************************)
(* renderZodOperationMappings                                              *)
(***************************************************************************)
\* a variant that takes the first response whatever its status
firstSuccessAny(responses) == responses

firstSuccess(responses) ==
    SelectSeq(responses, LAMBDA r : StartsWith(r[1], "2"))

\* the schema of the first content entry of a response: Undefined when there is none
firstMediaSchema(resp) ==
    IF resp.content = <<>> \/ Len(resp.content[1]) = 0 THEN Undefined
    ELSE resp.content[1][1][2].schema

responseSchemaName(op) ==
    LET success == firstSuccess(op.responses)
    IN IF Len(success) = 0 THEN <<>>
       ELSE LET schema == firstMediaSchema(success[1][2])
            IN IF ~IsUndefined(schema) /\ isSchemaRef(schema)
               THEN <<toSafeName(LastSegment(schema.ref))>>
               ELSE <<>>

validatorEntry(op) ==
    LET name == responseSchemaName(op)
    IN op.id \o ": "
           \o (IF name # <<>> /\ name[1] # ""
               THEN "Components.Schemas." \o name[1] \o "Schema"
               ELSE "undefined")
           \o ","

renderZodOperationMappings(ops) ==
    Join(<<"export const apiResponseValidators = {">>
            \o [i \in 1..Len(ops) |-> validatorEntry(ops[i])]
            \o <<"} as const">>, "\n")

(***************************************************************************)
(* renderPaths                                                             *)
(***************************************************************************)
renderParam(p) ==
    IF isSafeParam(p.typeName)
    THEN "export type " \o p.typeName \o " = " \o renderType(p.typeNode) \o ";"
    ELSE "export interface Param_" \o toSafeName(p.typeName) \o " {\n    \""
            \o p.param.name \o "\": " \o renderType(p.typeNode) \o ";\n}"

\* a variant that decides on the parameter's own name
paramTypeRefByName(p) ==
    IF isSafeParam(p.param.name)
    THEN "Parameters." \o safeParamName(p.typeName)
    ELSE "Parameters.Param_" \o toSafeName(p.typeName) \o "[\"" \o p.param.name \o "\"]"

paramTypeRef(p) ==
    IF isSafeParam(p.typeName)
    THEN "Parameters." \o safeParamName(p.typeName)
    ELSE "Parameters.Param_" \o toSafeName(p.typeName) \o "[\"" \o p.param.name \o "\"]"

paramRequired(p) == Has(p.param, "required") /\ p.param.required

paramMember(p) ==
    "    " \o safeParamName(p.param.name) \o (IF paramRequired(p) THEN "" ELSE "?") \o ": "
        \o paramTypeRef(p) \o ";"

paramMembers(ps) == Join([i \in 1..Len(ps) |-> paramMember(ps[i])], "\n")

mediaTypeNode(media) ==
    IF ~IsUndefined(media.schema) THEN mapSchema(media.schema) ELSE identifier("unknown")

\* a variant that keeps every node
dedupeNever(typeNodes) == typeNodes

\* Array.from(new Map(typeNodes.map((tn) => [renderType(tn), tn])).values()): one node
\* for each rendered string, at the place of the string's first node, and it is the
\* last node that renders to that string
dedupeByRendering(typeNodes) ==
    LET firstAt(i) == \A j \in 1..(i - 1) : renderType(typeNodes[j]) # renderType(typeNodes[i])
        lastOf(i) == CHOOSE j \in 1..Len(typeNodes) :
                        /\ renderType(typeNodes[j]) = renderType(typeNodes[i])
                        /\ \A k \in (j + 1)..Len(typeNodes) :
                              renderType(typeNodes[k]) # renderType(typeNodes[i])
        firsts == SelectSeq([i \in 1..Len(typeNodes) |-> i], firstAt)
    IN [i \in 1..Len(firsts) |-> typeNodes[lastOf(firsts[i])]]

responseType(resp) ==
    LET entries == resp.content[1]
        typeNodes == [i \in 1..Len(entries) |-> mediaTypeNode(entries[i][2])]
    IN renderType(union(dedupeByRendering(typeNodes)))

responseDeclaration(status, resp) ==
    IF resp.content = <<>>
    THEN "export type $" \o status \o " = undefined;"
    ELSE LET entries == resp.content[1]
             mimes == Join([i \in 1..Len(entries) |-> entries[i][1]], ", ")
         IN "/** " \o mimes \o " */\nexport type $" \o status \o " = "
                \o responseType(resp) \o ";"

operationNamespace(op) ==
    LET declared == op.parameters.path \o op.parameters.query
    IN "\n            export namespace " \o upperFirst(op.id) \o " {"
        \o "\n                export type RequestBody = "
        \o (IF op.requestBody # <<>> THEN renderType(op.requestBody[1].type) ELSE "undefined")
        \o ";\n\n                export namespace Parameters {\n                    "
        \o Join([i \in 1..Len(declared) |-> renderParam(declared[i])], "\n")
        \o "\n                }\n\n                export interface PathParameters {"
        \o "\n                    " \o paramMembers(op.parameters.path)
        \o "\n                }\n\n                export interface QueryParameters {"
        \o "\n                    " \o paramMembers(op.parameters.query)
        \o "\n                }\n\n                export namespace Responses {"
        \o "\n                    "
        \o Join([i \in 1..Len(op.responses) |->
                    responseDeclaration(op.responses[i][1], op.responses[i][2])], "\n")
        \o "\n                }\n            }"

renderPaths(ops) ==
    "export namespace Paths {\n                "
        \o Join([i \in 1..Len(ops) |-> operationNamespace(ops[i])], "\n")
        \o "\n            }"

(***************************************************************************)
(* renderOperations and renderPathsDictionary                              *)
(***************************************************************************)
paramsType(op) ==
    LET operationName == upperFirst(op.id)
        parts ==
            (IF Len(op.parameters.path) > 0
             THEN <<"Paths." \o operationName \o ".PathParameters">> ELSE <<>>)
            \o (IF Len(op.parameters.query) > 0
                THEN <<"Paths." \o operationName \o ".QueryParameters">> ELSE <<>>)
    IN IF Len(parts) > 0 THEN "Parameters<" \o Join(parts, " & ") \o ">" ELSE "null | undefined"

reqBodyType(op) ==
    IF op.requestBody # <<>> THEN "Paths." \o upperFirst(op.id) \o ".RequestBody" ELSE "undefined"

\* Object.keys(op.responses)[0], when it is a non-empty string
mainRespType(op) ==
    IF Len(op.responses) > 0 /\ op.responses[1][1] # ""
    THEN "Paths." \o upperFirst(op.id) \o ".Responses.$" \o op.responses[1][1]
    ELSE "any"

signature(op) ==
    "(parameters?: " \o paramsType(op) \o ", data?: " \o reqBodyType(op)
        \o ", config?: AxiosRequestConfig) => OperationResponse<" \o mainRespType(op) \o ">;"

\* op.summary is an operation id here, which cleanDescription leaves as it is
renderWithComment(op, typing) ==
    IF op.summary = "" THEN typing
    ELSE "/**\n" \o " * " \o op.summary \o "\n */\n" \o typing

operationMethod(op) == renderWithComment(op, op.id \o ": " \o signature(op))

renderOperations(ops) ==
    "\n        export interface OperationMethods {\n        "
        \o Join([i \in 1..Len(ops) |-> operationMethod(ops[i])], "\n")
        \o "\n        }\n    "

\* a variant that opens a group for every operation
groupedPathsEach(ops) == [i \in 1..Len(ops) |-> ops[i].path]

\* the paths of ops, each once, in order of first occurrence
groupedPaths(ops) ==
    LET idx == SelectSeq([i \in 1..Len(ops) |-> i],
                         LAMBDA i : \A j \in 1..(i - 1) : ops[j].path # ops[i].path)
    IN ObjectKeys([i \in 1..Len(idx) |-> <<ops[idx[i]].path, TRUE>>])

dictionaryMethod(op) == "  " \o op.method \o ": " \o signature(op)

dictionaryPath(path, ops) ==
    LET own == SelectSeq(ops, LAMBDA op : op.path = path)
    IN "  '" \o path \o "': {\n"
        \o Join([i \in 1..Len(own) |-> dictionaryMethod(own[i])], "\n") \o "\n  }"

renderPathsDictionary(ops) ==
    LET paths == groupedPaths(ops)
    IN "\n        export interface PathsDictionary {\n        "
        \o Join([i \in 1..Len(paths) |-> dictionaryPath(paths[i], ops)], "\n")
        \o "\n        }\n    "

(***************************************************************************)
(* parseArgs.  argv[1] and argv[2] are the interpreter and the script, so  *)
(* the loop of the source (i = 2, zero-based) starts at argv[3].  A string *)
(* option holds <<value>>, or <<>> when it was assigned undefined.         *)
(***************************************************************************)
\* aliasMap[arg]: <<key>>, or <<>> when arg is no key of aliasMap
aliasMap(arg) ==
    CASE arg \in {"--keep", "-k"} -> <<"keepNoOpId">>
      [] arg \in {"--input", "-i"} -> <<"input">>
      [] arg \in {"--output", "-o"} -> <<"output">>
      [] OTHER -> <<>>

\* typeof opts[key] === 'boolean': keepNoOpId alone ever holds a boolean
isBooleanOption(o, key) == Has(o, key) /\ key = "keepNoOpId"

setOption(o, key, value) == [f \in DOMAIN o \cup {key} |-> IF f = key THEN value ELSE o[f]]

argAt(args, i) == IF i <= Len(args) THEN <<args[i]>> ELSE <<>>

RECURSIVE parseFrom(_, _, _)
parseFrom(args, i, o) ==
    IF i > Len(args) THEN o
    ELSE LET key == aliasMap(args[i])
         IN IF key = <<>> THEN parseFrom(args, i + 1, o)
            ELSE IF isBooleanOption(o, key[1])
                 THEN parseFrom(args, i + 1, setOption(o, key[1], TRUE))
                 ELSE parseFrom(args, i + 2, setOption(o, key[1], argAt(args, i + 1)))

parseArgs(args) == parseFrom(args, 3, IdleOpts)

(***************************************************************************)
(* main and generateTypes                                                  *)
(***************************************************************************)
\* a destructured string option: <<>> when the key is absent or holds undefined
optionOf(o, key) == IF Has(o, key) THEN o[key] ELSE <<>>

\* the truthiness of the destructured zod, which is undefined when opts has no such key
zodOf(o) == Has(o, "zod") /\ o.zod

\* input ?? process.argv[2]
fileOf(o, args) == IF optionOf(o, "input") # <<>> THEN o.input ELSE argAt(args, 3)

\* !file
noFile(o, args) == fileOf(o, args) = <<>> \/ fileOf(o, args) = <<"">>

CONSTANT_TYPES ==
    "\nexport type ImplicitParamValue = string | number\n"
        \o "        export interface UnknownParamsObject {\n"
        \o "            [parameter: string]: ImplicitParamValue\n"
        \o "        }\n"
        \o "        export type SingleParam = ImplicitParamValue\n"
        \o "        export type Parameters<ParamsObject = UnknownParamsObject> =\n"
        \o "            | ParamsObject\n"
        \o "            | SingleParam\n"
        \o "        export type OperationResponse<T = any> = Promise<T>\n"
        \o "        export type AxiosRequestConfig = any\n"

ZodImport == "import { z } from 'zod'"

combinedString(o, zod) ==
    "\n        /* eslint-disable @typescript-eslint/no-namespace */\n    \n        "
        \o (IF zod THEN ZodImport ELSE "")
        \o "\n\n        // Automatically generated types\n        " \o o.components
        \o "\n\n        " \o o.paths
        \o "\n\n        " \o o.ops
        \o "\n\n        " \o o.pathDict
        \o "\n\n        " \o (IF zod THEN o.zodMapping ELSE "")
        \o "\n\n        " \o CONSTANT_TYPES
        \o "\n    "

(***************************************************************************)
(* The pipeline run: main of openapi-typings-gen.ts, one action for each   *)
(* statement of main and of generateTypes.  The document read from the     *)
(* file is taken already bundled; the formatting of the text by prettier   *)
(* is outside the model, and out.combined is the text handed to it.        *)
(***************************************************************************)
PetSchema ==
    [type |-> "object",
     properties |-> << <<"id", [type |-> "string"]>>, <<"age", [type |-> "integer"]>> >>,
     required |-> <<"id">>]

\* a schema that contains itself through a property and through array items
NodeSchema ==
    [type |-> "object",
     properties |-> << <<"value", [type |-> "string"]>>,
                       <<"next", Ref("#/components/schemas/Node")>>,
                       <<"children", [type |-> "array",
                                      items |-> Ref("#/components/schemas/Node")]>> >>,
     required |-> <<"value">>]

\* a schema that contains itself through array items alone
TreeSchema == [type |-> "array", items |-> Ref("#/components/schemas/Tree")]

Registries ==
    { <<>>,
      << << <<"Pet", PetSchema>> >> >>,
      << << <<"Pet", PetSchema>>, <<"Node", NodeSchema>> >> >>,
      << << <<"Tree", TreeSchema>>, <<"Pet", PetSchema>> >> >> }

JsonOf(schema) == << <<"application/json", [schema |-> schema]>> >>

IdParam == [name |-> "id", in |-> "path", required |-> TRUE, schema |-> [type |-> "string"]]
RequestIdParam == [name |-> "X-Request-Id", in |-> "query", schema |-> [type |-> "string"]]
TwoFaParam == [name |-> "2fa", in |-> "query", schema |-> [type |-> "integer"]]
LimitParam == [name |-> "limit", in |-> "query", schema |-> [type |-> "integer"]]
HintParam == [name |-> "limit@TypeHint", in |-> "query", schema |-> [type |-> "string"]]

ParamLists ==
    { <<IdParam>>,
      <<IdParam, RequestIdParam>>,
      <<IdParam, TwoFaParam, HintParam>>,
      <<IdParam, LimitParam, RequestIdParam>> }

TraceHeader == [name |-> "trace", in |-> "header", schema |-> [type |-> "string"]]
SessionCookie == [name |-> "session", in |-> "cookie", required |-> TRUE,
                  schema |-> [type |-> "string"]]
SortParam == [name |-> "sort", in |-> "query", schema |-> [type |-> "string"]]
PathHint == [name |-> "id@TypeHint", in |-> "path", required |-> TRUE,
             schema |-> [type |-> "string"]]
HeaderHint == [name |-> "@TypeHint", in |-> "header", schema |-> [type |-> "boolean"]]
QueryId == [name |-> "id", in |-> "query", schema |-> [type |-> "integer"]]
DashParam == [name |-> "a-b", in |-> "query", schema |-> [type |-> "string"]]
DotParam == [name |-> "a.b", in |-> "query", required |-> TRUE, schema |-> [type |-> "integer"]]
TwoFaPath == [name |-> "2fa", in |-> "path", required |-> TRUE, schema |-> [type |-> "string"]]

\* parameters of every location, hints among them, and parameters whose names agree or
\* sanitize to one name
GroupedParamLists ==
    { <<TraceHeader, SortParam, IdParam, SessionCookie, PathHint, LimitParam, HintParam>>,
      <<HintParam, HeaderHint>>,
      <<SortParam, HintParam, LimitParam>>,
      <<IdParam, QueryId>>,
      <<DashParam, DotParam>>,
      <<TwoFaPath, TwoFaParam>> }

PetResponses ==
    << <<"404", [description |-> "missing"]>>,
       <<"200", [content |-> JsonOf(Ref("#/components/schemas/Pet"))]>> >>

ListPets ==
    [operationId |-> "listPets",
     responses |-> << <<"200", [content |-> JsonOf([type |-> "array",
                                   items |-> Ref("#/components/schemas/Pet")])]>> >>]

CreatePet ==
    [operationId |-> "create-pet",
     requestBody |-> [content |-> JsonOf(Ref("#/components/schemas/Pet"))],
     responses |-> << <<"201", [description |-> "created"]>> >>]

\* the operations on /pets/{id}: without an operationId, and with one
UnnamedGets == {[parameters |-> ps, responses |-> PetResponses] : ps \in ParamLists}
NamedGets == {[operationId |-> "getPet", parameters |-> ps, responses |-> PetResponses] :
                 ps \in {<<IdParam>>, <<IdParam, RequestIdParam>>}}

PetsItems ==
    { <<>>,
      << <<"/pets", << <<"get", ListPets>> >> >> >>,
      << <<"/pets", << <<"get", ListPets>>, <<"post", CreatePet>> >> >> >> }

PetItems ==
    { <<>>, << <<"/pets/{id}", << <<"get", Null>> >> >> >> }
        \cup { << <<"/pets/{id}", << <<"get", op>> >> >> >> : op \in UnnamedGets \cup NamedGets }
        \cup { << <<"/pets/{id}", << <<"delete", Null>>, <<"get", op>> >> >> >> :
                  op \in {[responses |-> PetResponses]} }

\* two schemas that refer to each other
ASchema ==
    [type |-> "object", properties |-> << <<"b", Ref("#/components/schemas/B")>> >>,
     required |-> <<"b">>]
BSchema ==
    [type |-> "object",
     properties |-> << <<"a", Ref("#/components/schemas/A")>>,
                       <<"more", [type |-> "array", items |-> Ref("#/components/schemas/A")]>> >>]

\* an object with a property that declares no type and an array that declares no items
LooseSchema ==
    [type |-> "object",
     properties |-> << <<"meta", [description |-> "anything"]>>,
                       <<"list", [type |-> "array"]>>,
                       <<"pet", Ref("#/components/schemas/Pet")>> >>]

\* registries whose names the sanitizer maps to one name, a registry with a cycle of
\* two components, and a registry with untyped parts
OtherRegistries ==
    { << << <<"a-b", [type |-> "string"]>>, <<"a.b", PetSchema>> >> >>,
      << << <<"Pet", PetSchema>>, <<"pet list", [type |-> "array",
                                      items |-> Ref("#/components/schemas/Pet")]>>,
            <<"pet-list", [type |-> "integer"]>> >> >>,
      << << <<"A", ASchema>>, <<"B", BSchema>> >> >>,
      << << <<"B", BSchema>>, <<"Pet", PetSchema>>, <<"A", ASchema>> >> >>,
      << << <<"Loose", LooseSchema>>, <<"Pet", PetSchema>> >> >>,
      << << <<"Empty", [type |-> "string", enum |-> <<>>]>>,
            <<"Nothing", [oneOf |-> <<>>]>> >> >> }

\* the responses of an operation; status keys in the order the document declares them
ResponseLists ==
    { << <<"200", [content |-> << <<"application/json", [schema |-> Ref("#/components/schemas/Pet")]>>,
                                  <<"application/xml", [schema |-> Ref("#/components/schemas/Pet")]>> >>]>> >>,
      << <<"200", [content |-> << <<"application/json", [schema |-> [type |-> "integer"]]>>,
                                  <<"text/plain", [schema |-> [type |-> "string"]]>>,
                                  <<"application/xml", [schema |-> [type |-> "number",
                                                                    nullable |-> TRUE]]>> >>]>>,
         <<"default", [description |-> "error"]>> >>,
      << <<"200", [content |-> << <<"application/json", [example |-> "pet"]>>,
                                  <<"text/plain", [schema |-> [type |-> "string"]]>>,
                                  <<"text/csv", [example |-> "a,b"]>> >>]>> >>,
      << <<"404", [description |-> "missing"]>>,
         <<"500", [content |-> JsonOf([type |-> "string"])]>> >>,
      << <<"default", [description |-> "error"]>>,
         <<"201", [content |-> JsonOf(Ref("#/components/schemas/pet-list"))]>>,
         <<"200", [description |-> "nothing"]>> >>,
      << <<"2XX", [content |-> JsonOf(Ref("#/components/schemas/Pet"))]>>,
         <<"404", [content |-> JsonOf([type |-> "string"])]>> >>,
      << <<"204", [description |-> "nothing", content |-> <<>>]>>,
         <<"404", [content |-> JsonOf([type |-> "string"])]>> >> }

\* operations with an operationId whose responses vary, and one that declares nothing else
FoundGets ==
    { [operationId |-> "findPet", parameters |-> <<IdParam>>, responses |-> r] :
         r \in ResponseLists }
        \cup { [operationId |-> "findPet"],
               [operationId |-> "findPet", parameters |-> <<LimitParam>>] }
        \cup { [operationId |-> "findPet", parameters |-> ps, responses |-> PetResponses] :
                 ps \in GroupedParamLists }

FindItems ==
    { << <<"/pets/{id}", << <<"put", CreatePet>>, <<"get", op>> >> >> >> : op \in FoundGets }

PetRegistry == << << <<"Pet", PetSchema>> >> >>

Documents ==
    { [schemas |-> r, paths |-> a \o b] : r \in Registries, a \in PetsItems, b \in PetItems }
        \cup { [schemas |-> PetRegistry, paths |-> b] : b \in FindItems }
        \cup { [schemas |-> r, paths |-> a] :
                 r \in OtherRegistries,
                 a \in {<<>>, << <<"/pets", << <<"get", ListPets>> >> >> >>} }

ExistingFiles == {"openapi.json", "api.yaml"}

Arguments ==
    { <<>>,
      <<"openapi.json">>,
      <<"-k">>,
      <<"-i">>,
      <<"-i", "missing.json">>,
      <<"-i", "openapi.json">>,
      <<"--input", "api.yaml", "-o", "api.ts">>,
      <<"-k", "-i", "openapi.json">>,
      <<"api.yaml", "--keep">>,
      <<"-z", "-i", "openapi.json">>,
      <<"--zod", "--input", "openapi.json", "--keep">>,
      <<"openapi.json", "-z", "--output", "api.ts">> }

RenderIdle ==
    /\ node = identifier("any")
    /\ processing = {}
    /\ tsOut = <<>>
    /\ zodOut = NoZod

Init ==
    /\ RenderIdle
    /\ MapIdle
    /\ argv \in {<<"node", "openapi-typings-gen">> \o a : a \in Arguments}
    /\ doc = IdleDoc
    /\ pc = "main"
    /\ opts = IdleOpts
    /\ operations = <<>>
    /\ components = <<>>
    /\ out = IdleOut
    /\ history = <<>>

\* const { keepNoOpId, input, output, zod } = parseArgs(process.argv), and the usage exit
ParseArgs ==
    /\ pc = "main"
    /\ opts' = parseArgs(argv)
    /\ pc' = IF noFile(opts', argv) THEN "usage" ELSE "loadSpec"
    /\ UNCHANGED <<argv, doc, operations, components, out>>
    /\ UNCHANGED renderVars
    /\ UNCHANGED mapVars
    /\ UNCHANGED history

\* loadSpec(path.resolve(file)): the read fails when there is no such file
LoadSpec ==
    /\ pc = "loadSpec"
    /\ IF fileOf(opts, argv)[1] \in ExistingFiles
       THEN /\ doc' \in Documents
            /\ pc' = "generateIROperations"
       ELSE /\ doc' = doc
            /\ pc' = "failed"
    /\ UNCHANGED <<argv, opts, operations, components, out>>
    /\ UNCHANGED renderVars
    /\ UNCHANGED mapVars
    /\ UNCHANGED history

GenerateIROperations ==
    /\ pc = "generateIROperations"
    /\ operations' = generateIROperations(doc, opts.keepNoOpId)
    /\ pc' = "generateComponentTypes"
    /\ UNCHANGED <<argv, doc, opts, components, out>>
    /\ UNCHANGED renderVars
    /\ UNCHANGED mapVars
    /\ UNCHANGED history

\* a variant that keeps the entries of an earlier call
GenerateComponentTypesAppending ==
    /\ pc = "generateComponentTypes"
    /\ components' = components \o generateComponentTypes(doc.schemas)
    /\ pc' = "renderComponents"
    /\ UNCHANGED <<argv, doc, opts, operations, out>>
    /\ UNCHANGED renderVars
    /\ UNCHANGED mapVars
    /\ UNCHANGED history

GenerateComponentTypes ==
    /\ pc = "generateComponentTypes"
    /\ components' = generateComponentTypes(doc.schemas)
    /\ pc' = "renderComponents"
    /\ UNCHANGED <<argv, doc, opts, operations, out>>
    /\ UNCHANGED renderVars
    /\ UNCHANGED mapVars
    /\ UNCHANGED history

RenderComponents ==
    /\ pc = "renderComponents"
    /\ out' = [out EXCEPT !.components = renderComponents(components, zodOf(opts))]
    /\ pc' = "renderPaths"
    /\ UNCHANGED <<argv, doc, opts, operations, components>>
    /\ UNCHANGED renderVars
    /\ UNCHANGED mapVars
    /\ UNCHANGED history

RenderPaths ==
    /\ pc = "renderPaths"
    /\ out' = [out EXCEPT !.paths = renderPaths(operations)]
    /\ pc' = "renderOperations"
    /\ UNCHANGED <<argv, doc, opts, operations, components>>
    /\ UNCHANGED renderVars
    /\ UNCHANGED mapVars
    /\ UNCHANGED history

RenderOperations ==
    /\ pc = "renderOperations"
    /\ out' = [out EXCEPT !.ops = renderOperations(operations)]
    /\ pc' = "renderPathsDictionary"
    /\ UNCHANGED <<argv, doc, opts, operations, components>>
    /\ UNCHANGED renderVars
    /\ UNCHANGED mapVars
    /\ UNCHANGED history

RenderPathsDictionary ==
    /\ pc = "renderPathsDictionary"
    /\ out' = [out EXCEPT !.pathDict = renderPathsDictionary(operations)]
    /\ pc' = "renderZodOperationMappings"
    /\ UNCHANGED <<argv, doc, opts, operations, components>>
    /\ UNCHANGED renderVars
    /\ UNCHANGED mapVars
    /\ UNCHANGED history

RenderZodOperationMappings ==
    /\ pc = "renderZodOperationMappings"
    /\ out' = [out EXCEPT !.zodMapping = renderZodOperationMappings(operations)]
    /\ pc' = "combine"
    /\ UNCHANGED <<argv, doc, opts, operations, components>>
    /\ UNCHANGED renderVars
    /\ UNCHANGED mapVars
    /\ UNCHANGED history

Combine ==
    /\ pc = "combine"
    /\ out' = [out EXCEPT !.combined = combinedString(out, zodOf(opts))]
    /\ pc' = "done"
    /\ UNCHANGED <<argv, doc, opts, operations, components>>
    /\ UNCHANGED renderVars
    /\ UNCHANGED mapVars
    /\ UNCHANGED history

Next ==
    \/ ParseArgs
    \/ LoadSpec
    \/ GenerateIROperations
    \/ GenerateComponentTypes
    \/ RenderComponents
    \/ RenderPaths
    \/ RenderOperations
    \/ RenderPathsDictionary
    \/ RenderZodOperationMappings
    \/ Combine

Spec == Init /\ [][Next]_vars

(***************************************************************************)
(* generateTypes(spec, keepNoOpId, zod) called with every pair of flags    *)
(***************************************************************************)
InitCore ==
    /\ RenderIdle
    /\ MapIdle
    /\ argv = <<>>
    /\ doc \in Documents
    /\ pc = "generateIROperations"
    /\ opts \in {[keepNoOpId |-> k, zod |-> z] : k \in BOOLEAN, z \in BOOLEAN}
    /\ operations = <<>>
    /\ components = <<>>
    /\ out = IdleOut
    /\ history = <<>>

NextCore ==
    \/ GenerateIROperations
    \/ GenerateComponentTypes
    \/ RenderComponents
    \/ RenderPaths
    \/ RenderOperations
    \/ RenderPathsDictionary
    \/ RenderZodOperationMappings
    \/ Combine

SpecCore == InitCore /\ [][NextCore]_vars

(***************************************************************************)
(* The mapper run: one call mapSchemaToTypeNode(root) on a schema graph    *)
(* that may reach itself, taken call by call.  A frame of the stack is an  *)
(* active call: its schema (a pointer or an inline schema), the ancestors  *)
(* and depth it was given, and the nodes its finished recursive calls      *)
(* returned so far.                                                        *)
(***************************************************************************)
StringSchema == [type |-> "string"]

\* the schemas with one child schema
CellsOver(kid) ==
    { [anyOf |-> <<kid>>],
      [allOf |-> <<kid>>],
      [oneOf |-> <<kid>>],
      [type |-> "array", items |-> kid],
      [type |-> "object", properties |-> << <<"next", kid>> >>] }

\* graphs of one object, which holds itself or a string
OneCellGraphs == { <<c>> : c \in CellsOver(Ptr(1)) \cup CellsOver(StringSchema) }

\* graphs of two objects, each holding itself, the other, or a string
TwoCellGraphs ==
    { <<a, b>> : a \in CellsOver(Ptr(1)) \cup CellsOver(Ptr(2)),
                 b \in CellsOver(Ptr(1)) \cup CellsOver(Ptr(2)) \cup CellsOver(StringSchema) }

\* graphs whose objects hold themselves more than once, and graphs without a cycle
OtherGraphs ==
    { << [allOf |-> <<Ptr(1), Ptr(1)>>] >>,
      << [anyOf |-> <<Ptr(1), StringSchema, Ref("#/components/schemas/Pet")>>] >>,
      << [type |-> "object",
          properties |-> << <<"self", Ptr(1)>>, <<"list", [type |-> "array", items |-> Ptr(1)]>>,
                            <<"either", [oneOf |-> <<Ptr(1), [type |-> "integer"]>>]>> >>,
          required |-> <<"self">>] >>,
      << [type |-> "array", items |-> [type |-> "array", items |-> [type |-> "array",
          items |-> [type |-> "array", items |-> [type |-> "array", items |-> [type |-> "array",
          items |-> [type |-> "array", items |-> [type |-> "array",
          items |-> StringSchema]]]]]]]] >>,
      << PetSchema >>,
      << [type |-> "object", properties |-> << <<"id", StringSchema>> >>,
          required |-> <<"id", "name">>] >>,
      << [type |-> "array"] >>,
      << [type |-> "object",
          properties |-> << <<"b", [type |-> "boolean"]>>, <<"a", [type |-> "number"]>>,
                            <<"free", [type |-> "object"]>>, <<"odd", [type |-> "file"]>>,
                            <<"none", [description |-> "untyped"]>>,
                            <<"kind", [type |-> "string", enum |-> <<JStr("b"), JStr("a")>>]>>,
                            <<"pet", PetSchema>> >>] >>,
      << Ref("#/components/schemas/Pet") >> }

IntegerSchema == [type |-> "integer"]
LetterEnum == <<JStr("a"), JStr("b")>>

\* six arrays, one in the other, around last: last is mapped at depth 6
SixArraysAround(last) ==
    [type |-> "array", items |-> [type |-> "array", items |-> [type |-> "array",
     items |-> [type |-> "array", items |-> [type |-> "array", items |-> [type |-> "array",
     items |-> last]]]]]]

\* graphs whose schemas fall under more than one rule of the mapper
ManyRuleGraphs ==
    { << [oneOf |-> <<StringSchema, IntegerSchema>>,
          allOf |-> <<StringSchema, Ref("#/components/schemas/Pet"), PetSchema>>] >>,
      << [anyOf |-> <<StringSchema>>,
          allOf |-> <<StringSchema, IntegerSchema>>,
          oneOf |-> <<StringSchema, IntegerSchema, StringSchema>>] >>,
      << [type |-> "string", enum |-> LetterEnum, anyOf |-> <<StringSchema>>] >>,
      << [enum |-> LetterEnum, allOf |-> <<Ptr(1)>>] >>,
      << [enum |-> LetterEnum, oneOf |-> <<IntegerSchema>>] >>,
      << [type |-> "string", oneOf |-> <<IntegerSchema, StringSchema>>] >>,
      << [type |-> "object", allOf |-> <<PetSchema, StringSchema>>,
          properties |-> << <<"id", StringSchema>> >>] >>,
      << [type |-> "object",
          properties |-> << <<"both", [oneOf |-> <<StringSchema>>,
                                       allOf |-> <<IntegerSchema, StringSchema>>]>> >>] >>,
      << SixArraysAround([type |-> "string", enum |-> LetterEnum]) >>,
      << SixArraysAround([oneOf |-> <<StringSchema>>]) >>,
      << SixArraysAround(Ref("#/components/schemas/Pet")) >>,
      << SixArraysAround([type |-> "array"]) >>,
      << SixArraysAround(IntegerSchema) >>,
      << [type |-> "array",
          items |-> [ref |-> "#/components/schemas/Pet", enum |-> LetterEnum,
                     type |-> "string"]] >> }

\* graphs with a schema that is absent, has no or an unknown type, or lacks its items or
\* properties, and references to components that are declared nowhere
MalformedGraphs ==
    { << Undefined >>,
      << [description |-> "untyped"] >>,
      << [type |-> "file"] >>,
      << [type |-> "object"] >>,
      << [type |-> "array", items |-> [type |-> "tuple", items |-> StringSchema]] >>,
      << [type |-> "array", items |-> Ref("#/components/schemas/no-such.schema")] >>,
      << Ref("#/components/schemas/") >>,
      << Ref("no such schema") >>,
      << [ref |-> "", type |-> "string"] >>,
      << [type |-> "object",
          properties |-> << <<"gone", Undefined>>, <<"list", [type |-> "array"]>>,
                            <<"far", Ref("other.yaml#/definitions/far-away")>> >>,
          required |-> <<"gone">>] >> }

Graphs ==
    OneCellGraphs \cup TwoCellGraphs \cup OtherGraphs \cup ManyRuleGraphs \cup MalformedGraphs

Frame(handle, ancestors, depth) ==
    [handle |-> handle, ancestors |-> ancestors, depth |-> depth, kids |-> <<>>]

\* the call returns before the switch and before any recursive call
returnsEarly(f) ==
    LET s == Deref(graph, f.handle)
    IN IsUndefined(s) \/ isSchemaRef(s) \/ guardCuts(f.handle, f.ancestors, f.depth)

\* the recursive calls the call f makes, in order
frameCalls(f) ==
    IF returnsEarly(f) THEN <<>>
    ELSE mapChildren(f.handle, Deref(graph, f.handle), f.ancestors)

\* the node the call f returns once its recursive calls have returned f.kids
frameResult(f) ==
    LET s == Deref(graph, f.handle)
    IN IF IsUndefined(s) THEN identifier("any")
       ELSE IF isSchemaRef(s) THEN mapRef(s)
       ELSE IF guardCuts(f.handle, f.ancestors, f.depth) THEN guardFallback(s)
       ELSE mapBuild(s, f.kids)

Top == stack[Len(stack)]

InitMap ==
    /\ RenderIdle
    /\ PipeIdle
    /\ graph \in Graphs
    /\ stack = <<Frame(Ptr(1), <<>>, 0)>>
    /\ mapOut = <<>>
    /\ history = <<>>

\* the innermost call makes its next recursive call
MapCall ==
    /\ stack # <<>>
    /\ Len(Top.kids) < Len(frameCalls(Top))
    /\ LET next == frameCalls(Top)[Len(Top.kids) + 1]
       IN stack' = Append(stack, Frame(next[1], next[2], Top.depth + 1))
    /\ UNCHANGED <<graph, mapOut>>
    /\ UNCHANGED renderVars
    /\ UNCHANGED pipeVars
    /\ UNCHANGED history

\* the innermost call returns its node, to its caller or as the result
MapReturn ==
    /\ stack # <<>>
    /\ Len(Top.kids) = Len(frameCalls(Top))
    /\ LET result == frameResult(Top)
           rest == SubSeq(stack, 1, Len(stack) - 1)
       IN IF rest = <<>>
          THEN /\ stack' = <<>>
               /\ mapOut' = <<result>>
          ELSE /\ stack' = [rest EXCEPT ![Len(rest)].kids = Append(@, result)]
               /\ mapOut' = mapOut
    /\ UNCHANGED graph
    /\ UNCHANGED renderVars
    /\ UNCHANGED pipeVars
    /\ UNCHANGED history

NextMap == MapCall \/ MapReturn

SpecMap == InitMap /\ [][NextMap]_vars

\* a call that has been made runs on: the mapper is one synchronous computation
SpecMapFair == SpecMap /\ WF_vars(NextMap)

(***************************************************************************)
(* The repeated run: in one process, renderType and renderZod are called   *)
(* again on the same node and processing set, or generateTypes is called   *)
(* again on the same document with the same flags.  history keeps what the *)
(* earlier calls returned; the variables of a call keep their values until *)
(* the next call assigns them.                                             *)
(***************************************************************************)
MaxRuns == 2        \* most calls of one run made in a process

RenderResult == [ts |-> tsOut, zod |-> zodOut]
CoreResult == [operations |-> operations, components |-> components, out |-> out]

InitTwice ==
    \/ InitRender /\ node \in FlatNodes
    \/ InitCore

\* both renderers returned; they are called again on the same arguments
CallAgain ==
    /\ pc = "idle"
    /\ tsOut # <<>>
    /\ zodOut.done
    /\ Len(history) < MaxRuns - 1
    /\ history' = Append(history, RenderResult)
    /\ tsOut' = <<>>
    /\ zodOut' = NoZod
    /\ UNCHANGED <<node, processing>>
    /\ UNCHANGED pipeVars
    /\ UNCHANGED mapVars

\* generateTypes returned; it is called again on the same arguments
RunAgain ==
    /\ pc = "done"
    /\ Len(history) < MaxRuns - 1
    /\ history' = Append(history, CoreResult)
    /\ pc' = "generateIROperations"
    /\ UNCHANGED <<argv, doc, opts, operations, components, out>>
    /\ UNCHANGED renderVars
    /\ UNCHANGED mapVars

NextTwice ==
    \/ CallRenderType
    \/ CallRenderZod
    \/ CallAgain
    \/ GenerateIROperations
    \/ GenerateComponentTypes
    \/ RenderComponents
    \/ RenderPaths
    \/ RenderOperations
    \/ RenderPathsDictionary
    \/ RenderZodOperationMappings
    \/ Combine
    \/ RunAgain

SpecTwice == InitTwice /\ [][NextTwice]_vars

(***************************************************************************)
(* renderZodComponents taken step by step: processing is the set of the    *)
(* call, history the strings its callback returned so far, node the body   *)
(* that is being rendered and zodOut what renderZod returned for it.       *)
(***************************************************************************)
MaxComponents == 2

ZodNames == {"Pet", "NodeA", "a_b"}

ZodBodies ==
    { identifier("string"), identifier("NodeA"), identifier("Pet"), identifier(PetRef),
      arrayOf(identifier("NodeA")),
      union(<<identifier("Pet"), literal(JNull)>>),
      objectOf(<< <<"child", identifier("NodeA")>>, <<"pet", identifier(PetRef)>> >>, <<"pet">>),
      intersection(<<identifier("NodeA")>>) }

ZodComponentLists ==
    SeqsUpTo([name : ZodNames, type : ZodBodies], MaxComponents) \cup {<<>>}

\* the component the callback is at
ZodItem == components[Len(history) + 1]

InitZodComponents ==
    /\ components \in ZodComponentLists
    /\ processing = {}
    /\ pc = "processing.add"
    /\ node = identifier("any")
    /\ tsOut = <<>>
    /\ zodOut = NoZod
    /\ argv = <<>>
    /\ doc = IdleDoc
    /\ opts = IdleOpts
    /\ operations = <<>>
    /\ out = IdleOut
    /\ MapIdle
    /\ history = <<>>

\* processing.add(item.name)
ZodAdd ==
    /\ pc = "processing.add"
    /\ Len(history) < Len(components)
    /\ processing' = zodProcessingFor(processing, ZodItem.name)
    /\ node' = ZodItem.type
    /\ pc' = "renderZod"
    /\ UNCHANGED <<tsOut, zodOut, argv, doc, opts, operations, components, out, history>>
    /\ UNCHANGED mapVars

\* const schemaStr = renderZod(item.type, processing); a TypeError leaves the function
ZodBody ==
    /\ pc = "renderZod"
    /\ IF renderZodThrows(node)
       THEN /\ zodOut' = [done |-> TRUE, threw |-> TRUE, str |-> ""]
            /\ pc' = "threw"
       ELSE /\ zodOut' = [done |-> TRUE, threw |-> FALSE, str |-> renderZod(node, processing)]
            /\ pc' = "processing.delete"
    /\ UNCHANGED <<node, processing, tsOut>>
    /\ UNCHANGED <<argv, doc, opts, operations, components, out, history>>
    /\ UNCHANGED mapVars

\* processing.delete(item.name) and the declaration the callback returns
ZodDelete ==
    /\ pc = "processing.delete"
    /\ processing' = zodProcessingAfter(processing, ZodItem.name)
    /\ history' = Append(history, zodDeclaration(ZodItem.name, zodOut.str))
    /\ zodOut' = NoZod
    /\ pc' = "processing.add"
    /\ UNCHANGED <<node, tsOut, argv, doc, opts, operations, components, out>>
    /\ UNCHANGED mapVars

\* .join('\n\n') of the declarations, which renderZodComponents returns
ZodJoin ==
    /\ pc = "processing.add"
    /\ Len(history) = Len(components)
    /\ out' = [out EXCEPT !.components = Join(history, "\n\n")]
    /\ pc' = "returned"
    /\ UNCHANGED <<node, processing, tsOut, zodOut, argv, doc, opts, operations, components,
                   history>>
    /\ UNCHANGED mapVars

NextZodComponents == ZodAdd \/ ZodBody \/ ZodDelete \/ ZodJoin

SpecZodComponents == InitZodComponents /\ [][NextZodComponents]_vars

(***************************************************************************)
(*                               Claims                                    *)
(***************************************************************************)
RECURSIVE SumSeq(_)
SumSeq(ns) == IF Len(ns) = 0 THEN 0 ELSE ns[1] + SumSeq(Tail(ns))

\* the number of identifier nodes called name in the tree n
RECURSIVE IdentCount(_, _)
IdentCount(n, name) ==
    CASE n.kind = "identifier" -> IF n.name = name THEN 1 ELSE 0
      [] n.kind = "array" -> IdentCount(n.element, name)
      [] n.kind \in {"union", "intersection"} ->
            SumSeq([i \in 1..Len(n.types) |-> IdentCount(n.types[i], name)])
      [] n.kind = "object" ->
            SumSeq([i \in 1..Len(n.properties) |-> IdentCount(n.properties[i][2], name)])
      [] OTHER -> 0

\* the names of the identifier nodes of the tree n
RECURSIVE IdentNames(_)
IdentNames(n) ==
    CASE n.kind = "identifier" -> {n.name}
      [] n.kind = "array" -> IdentNames(n.element)
      [] n.kind \in {"union", "intersection"} ->
            UNION {IdentNames(n.types[i]) : i \in 1..Len(n.types)}
      [] n.kind = "object" ->
            UNION {IdentNames(n.properties[i][2]) : i \in 1..Len(n.properties)}
      [] OTHER -> {}

KeywordNames == {"string", "number", "boolean", OpenMapName}

\* every intersection of the tree has exactly two branches
RECURSIVE PairwiseOnly(_)
PairwiseOnly(n) ==
    CASE n.kind = "array" -> PairwiseOnly(n.element)
      [] n.kind = "union" -> \A i \in 1..Len(n.types) : PairwiseOnly(n.types[i])
      [] n.kind = "intersection" ->
            Len(n.types) = 2 /\ \A i \in 1..Len(n.types) : PairwiseOnly(n.types[i])
      [] n.kind = "object" ->
            \A i \in 1..Len(n.properties) : PairwiseOnly(n.properties[i][2])
      [] OTHER -> TRUE

\* the tree holds an object node
RECURSIVE HasObject(_)
HasObject(n) ==
    CASE n.kind = "object" -> TRUE
      [] n.kind = "array" -> HasObject(n.element)
      [] n.kind \in {"union", "intersection"} -> \E i \in 1..Len(n.types) : HasObject(n.types[i])
      [] OTHER -> FALSE

IsNullableNode(n) == "nullable" \in DOMAIN n /\ n.nullable

ZodReturned == zodOut.done /\ ~zodOut.threw

PetNode ==
    objectOf(<<<<"id", identifier("string")>>, <<"age", identifier("number")>>>>, <<"id">>)

\* C1 (as claimed): a union node with exactly one branch b renders to the same
\* string as b itself, in renderType and in renderZod, without any z.union wrapper.
C1_SingleBranchUnionIsBranch ==
    (tsOut # <<>> /\ ZodReturned /\ node.kind = "union" /\ Len(node.types) = 1) =>
        /\ tsOut[1] = renderType(node.types[1])
        /\ zodOut.str = renderZod(node.types[1], processing)

\* C3: renderZod renders an identifier that is no keyword as the deferred form
\* z.lazy(() => <name>Schema) exactly when its name is in processing, at every
\* position of the tree; a name outside processing is always the direct <name>Schema.
C3_LazyExactlyWhenInProcessing ==
    (ZodReturned /\ PairwiseOnly(node)) =>
        /\ \A name \in IdentNames(node) \ KeywordNames :
              /\ Occurrences(zodOut.str, name \o "Schema") = IdentCount(node, name)
              /\ Occurrences(zodOut.str, "z.lazy(() => " \o name \o "Schema)")
                    = IF name \in processing THEN IdentCount(node, name) ELSE 0
        /\ ((IdentNames(node) \ KeywordNames) \cap processing = {}
                => ~Contains(zodOut.str, "z.lazy("))

C3_Witness ==
    /\ ZodReturned
    /\ node = objectOf(<<<<"child", identifier("NodeA")>>>>, <<"child">>)
    /\ processing = {"NodeA"}
    /\ zodOut.str = "z.object({ \"child\": z.lazy(() => NodeASchema) })"

\* C4 (as claimed): in renderZod of an object, a nullable property gets .nullable()
\* exactly once and a property absent from required gets .optional() exactly once,
\* in that order.
C4_NullableThenOptionalOnce ==
    (ZodReturned /\ node.kind = "object") =>
        \A i \in 1..Len(node.properties) :
            LET k == node.properties[i][1]
                v == node.properties[i][2]
                expected ==
                    "\"" \o k \o "\": " \o renderZod(v, processing)
                        \o (IF IsNullableNode(v) THEN ".nullable()" ELSE "")
                        \o (IF Includes(node.required, k) THEN "" ELSE ".optional()")
            IN /\ Contains(zodOut.str, expected)
               /\ ~Contains(zodOut.str, expected \o ".nullable()")
               /\ ~Contains(zodOut.str, expected \o ".optional()")

\* the number of object properties of the tree that are absent from required
RECURSIVE OptionalPropCount(_)
OptionalPropCount(n) ==
    CASE n.kind = "array" -> OptionalPropCount(n.element)
      [] n.kind \in {"union", "intersection"} ->
            SumSeq([i \in 1..Len(n.types) |-> OptionalPropCount(n.types[i])])
      [] n.kind = "object" ->
            SumSeq([i \in 1..Len(n.properties) |->
                (IF Includes(n.required, n.properties[i][1]) THEN 0 ELSE 1)
                    + OptionalPropCount(n.properties[i][2])])
      [] OTHER -> 0

\* C9: renderZod of an array or a union adds no .optional() or .nullable() to the
\* element or to a branch; the only suffixes are those of object properties.
C9_NoSuffixOnElementsAndBranches ==
    (ZodReturned /\ node.kind \in {"array", "union"}) =>
        /\ PairwiseOnly(node) =>
              Occurrences(zodOut.str, ".optional()") = OptionalPropCount(node)
        /\ ~HasObject(node) =>
              ~Contains(zodOut.str, ".optional()") /\ ~Contains(zodOut.str, ".nullable()")
        /\ node = arrayOf(identifier("string")) => zodOut.str = "z.array(z.string())"
        /\ node = union(<<literal(JNull), identifier("string")>>)
              => zodOut.str = "z.union([z.literal(null), z.string()])"

C9_Witness ==
    /\ ZodReturned
    /\ node = arrayOf(identifierOf("string", TRUE))
    /\ zodOut.str = "z.array(z.string())"

\* C10: for every property p of an object node, renderType marks p with '?' exactly
\* when renderZod appends .optional() to p's validator, and both do so exactly when
\* p is absent from required.
C10_OptionalMarkersAgree ==
    (tsOut # <<>> /\ ZodReturned /\ node.kind = "object") =>
        /\ \A i \in 1..Len(node.properties) :
              LET k == node.properties[i][1]
                  v == node.properties[i][2]
                  absent == ~Includes(node.required, k)
                  tsEntry(mark) ==
                      "    " \o safeParamName(k) \o mark \o ": " \o renderType(v) \o ";"
                  zodEntry == "\"" \o k \o "\": " \o renderZod(v, processing)
              IN /\ Contains(tsOut[1], tsEntry("?")) <=> absent
                 /\ Contains(tsOut[1], tsEntry("")) <=> ~absent
                 /\ Contains(zodOut.str, zodEntry)
                 /\ Contains(zodOut.str, zodEntry \o ".optional()") <=> absent
        /\ node = PetNode =>
              /\ tsOut[1] = "{\n    id: string;\n    age?: number;\n}"
              /\ zodOut.str = "z.object({ \"id\": z.string(), \"age\": z.number().optional() })"

C10_Witness ==
    /\ node = PetNode
    /\ tsOut = <<"{\n    id: string;\n    age?: number;\n}">>
    /\ ZodReturned
    /\ zodOut.str = "z.object({ \"id\": z.string(), \"age\": z.number().optional() })"

(***************************************************************************)
(* Claims about the pipeline run                                           *)
(***************************************************************************)
Finished == pc = "done"

\* the triples <<path, method, operation>> of the document
DocOperations ==
    UNION { { <<doc.paths[i][1], doc.paths[i][2][j][1], doc.paths[i][2][j][2]>> :
                j \in 1..Len(doc.paths[i][2]) } : i \in 1..Len(doc.paths) }

Emitted(path, method) ==
    \E k \in 1..Len(operations) : operations[k].path = path /\ operations[k].method = method

EmittedId(path, method) ==
    operations[CHOOSE k \in 1..Len(operations) :
                  operations[k].path = path /\ operations[k].method = method].id

\* the names of the registry whose schema holds a reference to the component itself
SelfReferring == {"Node", "Tree"} \cap
    (IF doc.schemas = <<>> THEN {}
     ELSE {doc.schemas[1][i][1] : i \in 1..Len(doc.schemas[1])})

EagerRef(name) == "Components.Schemas." \o name \o "Schema"
LazyRef(name) == "z.lazy(() => " \o EagerRef(name) \o ")"

\* C2 (as claimed): end to end, with validators enabled, the validator declared for a
\* component whose schema refers to the component itself reaches the component's own
\* validator through z.lazy(() => ...) only, never through an eager reference.
C2_SelfReferenceIsDeferred ==
    (Finished /\ zodOf(opts)) =>
        \A name \in SelfReferring :
            /\ Contains(out.components, LazyRef(name))
            /\ Occurrences(out.components, EagerRef(name))
                  = Occurrences(out.components, LazyRef(name))

\* the typed path and query parameters of the emitted operations
DeclaredParams ==
    UNION { { (operations[k].parameters.path \o operations[k].parameters.query)[i] :
                i \in 1..Len(operations[k].parameters.path \o operations[k].parameters.query) } :
            k \in 1..Len(operations) }

TypeNameOf(name) == upperFirst(toSafeName(name))

\* a sanitized name is a bare identifier unless it is empty or starts with a digit
StartsLikeIdentifier(name) == Len(name) > 0 /\ ~IsDigit(CharAt(name, 1))

MemberKey(p) ==
    (IF isSafeParam(p.param.name) THEN p.param.name ELSE "\"" \o p.param.name \o "\"")
        \o (IF paramRequired(p) THEN "" ELSE "?") \o ": "

HasFallback(p) ==
    /\ Contains(out.paths, "export interface Param_" \o TypeNameOf(p.param.name)
                              \o " {\n    \"" \o p.param.name \o "\": ")
    /\ Contains(out.paths, MemberKey(p) \o "Parameters.Param_" \o TypeNameOf(p.param.name)
                              \o "[\"" \o p.param.name \o "\"];")
    /\ ~Contains(out.paths, "export type " \o TypeNameOf(p.param.name) \o " = ")

HasAlias(p) ==
    /\ Contains(out.paths, "export type " \o TypeNameOf(p.param.name) \o " = "
                              \o renderType(p.typeNode) \o ";")
    /\ Contains(out.paths, MemberKey(p) \o "Parameters." \o TypeNameOf(p.param.name) \o ";")
    /\ ~Contains(out.paths, "Param_" \o TypeNameOf(p.param.name))

AllBlocks == out.paths \o out.ops \o out.pathDict \o out.zodMapping

\* C7: an operation without operationId is included exactly when keepNoOpId is true; when
\* kept, get on /pets/{id} is called getPetsId and has an entry in OperationMethods; when
\* not kept it is in none of the emitted blocks; an operation with an operationId is
\* always included.
C7_UnnamedKeptExactlyWhenAsked ==
    Finished => \A t \in DocOperations :
        LET path == t[1]
            method == t[2]
            op == t[3]
        IN ~IsNull(op) =>
            IF hasOperationId(op) THEN Emitted(path, method)
            ELSE /\ Emitted(path, method) <=> opts.keepNoOpId
                 /\ (opts.keepNoOpId /\ path = "/pets/{id}" /\ method = "get") =>
                        /\ EmittedId(path, method) = "getPetsId"
                        /\ Contains(out.ops, "\ngetPetsId: (parameters?: ")
                 /\ (~opts.keepNoOpId /\ path = "/pets/{id}" /\ method = "get") =>
                        /\ ~Contains(AllBlocks, "getPetsId")
                        /\ ~Contains(AllBlocks, "GetPetsId")
                        /\ ~Contains(AllBlocks, "/pets/{id}")

C7_Witness ==
    /\ Finished
    /\ opts.keepNoOpId
    /\ \E t \in DocOperations : t[1] = "/pets/{id}" /\ t[2] = "get" /\ ~IsNull(t[3])
                                    /\ ~hasOperationId(t[3])
    /\ \E k \in 1..Len(operations) : operations[k].id = "getPetsId"
    /\ Contains(out.ops, "\ngetPetsId: (parameters?: ")

ZodAsked == Includes(argv, "-z") \/ Includes(argv, "--zod")

\* C8 (as claimed): -z or --zod on the command line enables validator generation: the
\* text then holds the zod import, one validator for each component and the
\* apiResponseValidators table; without the flag it holds none of them.
C8_ZodFlagEnablesValidators ==
    Finished =>
        /\ ZodAsked <=> Contains(out.combined, ZodImport)
        /\ ZodAsked <=> Contains(out.combined, "export const apiResponseValidators = {")
        /\ \A i \in 1..Len(components) :
              ZodAsked <=> Contains(out.combined,
                                    "export const " \o components[i].name \o "Schema: z.ZodType<any> = ")

(***************************************************************************)
(* Claims about the mapper run                                             *)
(***************************************************************************)
Max(ns) == IF ns = {} THEN 0 ELSE CHOOSE m \in ns : \A n \in ns : n <= m

\* the number of nodes on the longest path from n to a leaf of it
RECURSIVE NodeDepth(_)
NodeDepth(n) ==
    CASE n.kind = "array" -> 1 + NodeDepth(n.element)
      [] n.kind \in {"union", "intersection"} ->
            1 + Max({NodeDepth(n.types[i]) : i \in 1..Len(n.types)})
      [] n.kind = "object" ->
            1 + Max({NodeDepth(n.properties[i][2]) : i \in 1..Len(n.properties)})
      [] OTHER -> 1

MapReturned == mapOut # <<>>

CallsBounded ==
    /\ \A i \in 1..Len(stack) : stack[i].depth = i - 1 /\ stack[i].depth <= 6
    /\ \A i \in 1..(Len(stack) - 1) :
          /\ ~returnsEarly(stack[i])
          /\ stack[i].depth <= 5
          /\ ~Includes(stack[i].ancestors, stack[i].handle)
    /\ MapReturned =>
          /\ stack = <<>>
          /\ mapOut[1] = mapSchemaToTypeNode(graph, Ptr(1), <<>>, 0)
          /\ NodeDepth(mapOut[1]) <= 7

\* C6: mapSchemaToTypeNode returns a TypeNode for every schema graph, one that reaches
\* itself through properties, items, anyOf, oneOf or allOf included; a call whose depth
\* is greater than 5 or whose schema is among its ancestors makes no recursive call, so
\* no call is deeper than 6 and the returned node nests at most 7 deep.
C6_MapperTerminatesBounded == []CallsBounded /\ <>MapReturned

C6_Witness ==
    /\ MapReturned
    /\ graph = << [anyOf |-> <<Ptr(1)>>] >>
    /\ NodeDepth(mapOut[1]) = 7

(***************************************************************************)
(* Claims about the response types of renderPaths                          *)
(***************************************************************************)
\* the strings of strs, each once, in order of first occurrence
DistinctInOrder(strs) ==
    LET idx == SelectSeq([i \in 1..Len(strs) |-> i],
                         LAMBDA i : \A j \in 1..(i - 1) : strs[j] # strs[i])
    IN [i \in 1..Len(idx) |-> strs[idx[i]]]

\* the rendered type of one content entry of a response of the IR
RenderedMedia(media) ==
    IF IsUndefined(media.schema) THEN "unknown" ELSE renderType(mapSchema(media.schema))

ExpectedResponseDeclaration(status, resp) ==
    IF resp.content = <<>> THEN "export type $" \o status \o " = undefined;"
    ELSE LET entries == resp.content[1]
             rendered == [i \in 1..Len(entries) |-> RenderedMedia(entries[i][2])]
         IN "/** " \o Join([i \in 1..Len(entries) |-> entries[i][1]], ", ")
                \o " */\nexport type $" \o status \o " = "
                \o Join(DistinctInOrder(rendered), " | ") \o ";"

ExpectedResponsesBlock(op) ==
    "export namespace Responses {\n                    "
        \o Join([i \in 1..Len(op.responses) |->
                    ExpectedResponseDeclaration(op.responses[i][1], op.responses[i][2])], "\n")
        \o "\n                }\n            }"

\* C11: in renderPaths the type of a response status is the union of the distinct
\* rendered types of its content entries, each once and in order of first occurrence, so
\* entries that render alike give that one type; a response without content is undefined.
C11_ResponseTypesDeduplicated ==
    Finished => \A k \in 1..Len(operations) :
        /\ Contains(out.paths, "export namespace " \o upperFirst(operations[k].id) \o " {")
        /\ Contains(out.paths, ExpectedResponsesBlock(operations[k]))

C11_Witness ==
    /\ Finished
    /\ \E k \in 1..Len(operations) : \E i \in 1..Len(operations[k].responses) :
          LET resp == operations[k].responses[i][2]
          IN /\ resp.content # <<>>
             /\ Len(resp.content[1]) = 3
             /\ Len(DistinctInOrder([j \in 1..3 |-> RenderedMedia(resp.content[1][j][2])])) = 2
    /\ Contains(out.paths,
                "/** application/json, text/plain, application/xml */\nexport type $200 = number | string;")
    /\ Contains(out.paths, "export type $default = undefined;")

\* every object node of the tree lists in required only keys of its properties
RECURSIVE RequiredWithin(_)
RequiredWithin(n) ==
    CASE n.kind = "array" -> RequiredWithin(n.element)
      [] n.kind \in {"union", "intersection"} ->
            \A i \in 1..Len(n.types) : RequiredWithin(n.types[i])
      [] n.kind = "object" ->
            /\ \A j \in 1..Len(n.required) :
                  \E i \in 1..Len(n.properties) : n.properties[i][1] = n.required[j]
            /\ \A i \in 1..Len(n.properties) : RequiredWithin(n.properties[i][2])
      [] OTHER -> TRUE

\* C12 (as claimed): in every object node that mapSchemaToTypeNode returns, each name of
\* required is a key of properties, whatever the schema's own required list names.
C12_RequiredWithinProperties == MapReturned => RequiredWithin(mapOut[1])

RegistrySize == IF doc.schemas = <<>> THEN 0 ELSE Len(doc.schemas[1])

\* C13 (as claimed): generateComponentTypes returns one entry for each schema of the
\* registry and the sanitized names of its entries are pairwise distinct, for registries
\* whose names differ only in characters outside [a-zA-Z0-9_] as well.
C13_OneEntryEachDistinctNames ==
    Finished =>
        /\ Len(components) = RegistrySize
        /\ \A i, j \in 1..Len(components) :
              i # j => components[i].name # components[j].name

(***************************************************************************)
(* Claims about the repeated run                                           *)
(***************************************************************************)
BothRendered == pc = "idle" /\ tsOut # <<>> /\ zodOut.done

SuccessPlaces(op) == {i \in 1..Len(op.responses) : StartsWith(op.responses[i][1], "2")}

ExpectedValidator(op) ==
    IF SuccessPlaces(op) = {} THEN "undefined"
    ELSE LET first == CHOOSE i \in SuccessPlaces(op) : \A j \in SuccessPlaces(op) : i <= j
             resp == op.responses[first][2]
         IN IF resp.content = <<>> THEN "undefined"
            ELSE IF Len(resp.content[1]) = 0 THEN "undefined"
            ELSE LET schema == resp.content[1][1][2].schema
                 IN IF IsUndefined(schema) THEN "undefined"
                    ELSE IF Has(schema, "ref")
                         THEN "Components.Schemas." \o toSafeName(LastSegment(schema.ref))
                                  \o "Schema"
                         ELSE "undefined"

\* C15: renderZodOperationMappings emits one entry for each operation, keyed by its id:
\* Components.Schemas.<Name>Schema when the first content entry of the first 2xx response
\* (first in the order of the operation's responses) has a schema that is a $ref, Name
\* being the sanitized last segment of the reference, and undefined in every other case.
C15_OneValidatorEntryPerOperation ==
    Finished =>
        out.zodMapping =
            Join(<<"export const apiResponseValidators = {">>
                    \o [k \in 1..Len(operations) |->
                           operations[k].id \o ": " \o ExpectedValidator(operations[k]) \o ","]
                    \o <<"} as const">>, "\n")

C15_Witness ==
    /\ Finished
    /\ \E k \in 1..Len(operations) :
          /\ operations[k].id = "findPet"
          /\ Len(operations[k].responses) = 2
          /\ operations[k].responses[1][1] = "404"
          /\ operations[k].responses[2][1] = "2XX"
    /\ out.zodMapping = "export const apiResponseValidators = {\n"
                            \o "create_pet: undefined,\n"
                            \o "findPet: Components.Schemas.PetSchema,\n"
                            \o "} as const"

(***************************************************************************)
(* Claims about renderOperations and renderPathsDictionary                 *)
(***************************************************************************)
\* the operation of the document that the emitted operation op was built from
DocOperationOf(op) ==
    (CHOOSE t \in DocOperations : t[1] = op.path /\ t[2] = op.method)[3]

\* the status keys of the operation d in the order the document declares them
DeclaredStatuses(d) ==
    IF Has(d, "responses") THEN [i \in 1..Len(d.responses) |-> d.responses[i][1]] ELSE <<>>

\* the first key in JavaScript's own-property order: the integer-like keys come first,
\* in ascending numeric order, then the other keys in the order they were declared
FirstOwnKey(keys) ==
    LET ints == {i \in 1..Len(keys) : IsArrayIndex(keys[i])}
    IN IF ints # {}
       THEN keys[CHOOSE i \in ints : \A j \in ints : StrToNat(keys[i]) <= StrToNat(keys[j])]
       ELSE keys[1]

ExpectedParameters(op) ==
    LET name == upperFirst(op.id)
        hasPath == Len(op.parameters.path) > 0
        hasQuery == Len(op.parameters.query) > 0
    IN IF hasPath /\ hasQuery
       THEN "Parameters<Paths." \o name \o ".PathParameters & Paths." \o name
                \o ".QueryParameters>"
       ELSE IF hasPath THEN "Parameters<Paths." \o name \o ".PathParameters>"
       ELSE IF hasQuery THEN "Parameters<Paths." \o name \o ".QueryParameters>"
       ELSE "null | undefined"

ExpectedData(op) ==
    IF op.requestBody # <<>> THEN "Paths." \o upperFirst(op.id) \o ".RequestBody"
    ELSE "undefined"

ExpectedSignature(op, status) ==
    "(parameters?: " \o ExpectedParameters(op) \o ", data?: " \o ExpectedData(op)
        \o ", config?: AxiosRequestConfig) => OperationResponse<"
        \o (IF status = <<>> THEN "any"
            ELSE "Paths." \o upperFirst(op.id) \o ".Responses.$" \o status[1])
        \o ">;"

HasMethodEntry(op, status) ==
    Contains(out.ops, "\n" \o op.id \o ": " \o ExpectedSignature(op, status) \o "\n")

\* C16 (as claimed): the return type of an operation's signature is the type of its first
\* response status in the order the document declares the statuses, and any when none is
\* declared; the parameter type combines the non-empty ones of PathParameters and
\* QueryParameters and is 'null | undefined' without either; the data type is RequestBody
\* when there is a request body and undefined otherwise.
C16_ReturnsFirstDeclaredStatus ==
    Finished => \A k \in 1..Len(operations) :
        LET declared == DeclaredStatuses(DocOperationOf(operations[k]))
        IN HasMethodEntry(operations[k], IF declared = <<>> THEN <<>> ELSE <<declared[1]>>)

\* C16 (amended): the return type is the type of the first status in the order of
\* Object.keys(op.responses), which is the numerically smallest integer-like status code
\* (200 when 404 is declared before it) and, only when there is none, the first declared
\* key; it is any without responses; parameter and data types are as claimed.
C16_ReturnsFirstOwnKeyStatus ==
    Finished => \A k \in 1..Len(operations) :
        LET declared == DeclaredStatuses(DocOperationOf(operations[k]))
        IN HasMethodEntry(operations[k],
                          IF declared = <<>> THEN <<>> ELSE <<FirstOwnKey(declared)>>)

C16_Witness ==
    /\ Finished
    /\ \E k \in 1..Len(operations) :
          /\ operations[k].id = "getPet"
          /\ DeclaredStatuses(DocOperationOf(operations[k])) = <<"404", "200">>
          /\ Len(operations[k].parameters.query) = 1
    /\ Contains(out.ops, "\ngetPet: (parameters?: Parameters<Paths.GetPet.PathParameters & "
                    \o "Paths.GetPet.QueryParameters>, data?: undefined, "
                    \o "config?: AxiosRequestConfig) => "
                    \o "OperationResponse<Paths.GetPet.Responses.$200>;")

\* the first place of text at which sub starts; sub occurs in text
IndexOf(text, sub) ==
    CHOOSE i \in 1..(Len(text) - Len(sub) + 1) :
        /\ SubSeq(text, i, i + Len(sub) - 1) = sub
        /\ \A j \in 1..(i - 1) : SubSeq(text, j, j + Len(sub) - 1) # sub

\* what follows the first occurrence of start in text, up to the next occurrence of stop
Between(text, start, stop) ==
    LET rest == SubSeq(text, IndexOf(text, start) + Len(start), Len(text))
    IN SubSeq(rest, 1, IndexOf(rest, stop) - 1)

\* the signature of op in the OperationMethods block, and the entries under a path in the
\* PathsDictionary block
MethodSignature(op) == Between(out.ops, "\n" \o op.id \o ": ", "\n")
DictionaryEntries(path) == "\n" \o Between(out.pathDict, "  '" \o path \o "': {\n", "\n  }") \o "\n"

PathsOf(ops) == {ops[i].path : i \in 1..Len(ops)}

ValidatorBody(name) ==
    Between(out.components, "export const " \o name \o "Schema: z.ZodType<any> = ", ";")

\* C18 (as claimed): with validators enabled, the validator declared for a component
\* holds no eager reference to the validator of a component declared after it; such a
\* reference, which closes a cycle of two components, is emitted through z.lazy.
C18_NoEagerForwardReference ==
    (Finished /\ zodOf(opts)) =>
        \A i \in 1..Len(components) : \A j \in (i + 1)..Len(components) :
            Occurrences(ValidatorBody(components[i].name), EagerRef(components[j].name))
                = Occurrences(ValidatorBody(components[i].name), LazyRef(components[j].name))

\* C19 (as claimed): renderZod of an intersection with three or more branches emits a
\* validator that holds the validator of every branch; with exactly two branches a and b
\* it emits z.intersection(<a>, <b>).
C19_IntersectionKeepsEveryBranch ==
    (ZodReturned /\ node.kind = "intersection" /\ Len(node.types) >= 2) =>
        /\ \A i \in 1..Len(node.types) :
              Contains(zodOut.str, renderZod(node.types[i], processing))
        /\ Len(node.types) = 2 =>
              zodOut.str = "z.intersection(" \o renderZod(node.types[1], processing) \o ", "
                               \o renderZod(node.types[2], processing) \o ")"

(***************************************************************************)
(* Claims about the order of the mapper's rules                            *)
(***************************************************************************)
\* the combinator of s that is looked at first, in the order of the source (anyOf, allOf,
\* oneOf) and in the order anyOf, oneOf, allOf
SourceCombinator(s) ==
    IF Has(s, "anyOf") THEN "anyOf"
    ELSE IF Has(s, "allOf") THEN "allOf"
    ELSE IF Has(s, "oneOf") THEN "oneOf"
    ELSE "none"

UnionFirstCombinator(s) ==
    IF Has(s, "anyOf") THEN "anyOf"
    ELSE IF Has(s, "oneOf") THEN "oneOf"
    ELSE IF Has(s, "allOf") THEN "allOf"
    ELSE "none"

\* the kind and name of the node the dispatch on type gives
TypeDispatch(s, n) ==
    IF ~Has(s, "type") THEN n.kind = "identifier" /\ n.name = "any"
    ELSE CASE s.type = "string" -> n.kind = "identifier" /\ n.name = "string"
           [] s.type \in {"integer", "number"} -> n.kind = "identifier" /\ n.name = "number"
           [] s.type = "boolean" -> n.kind = "identifier" /\ n.name = "boolean"
           [] s.type = "array" -> n.kind = "array"
           [] s.type = "object" ->
                 IF Has(s, "properties") THEN n.kind = "object"
                 ELSE n.kind = "identifier" /\ n.name = OpenMapName
           [] OTHER -> n.kind = "identifier" /\ n.name = "any"

\* node n is what the first applicable rule gives for the call (handle, ancestors, depth),
\* the combinator rules being taken in the order that makes combinator the first one
FollowsRules(handle, ancestors, depth, n, combinator) ==
    LET s == Deref(graph, handle)
    IN IF IsUndefined(s) THEN n = identifier("any")
       ELSE IF Has(s, "ref") /\ s.ref # ""
       THEN n.kind = "identifier"
            /\ n.name = "Components.Schemas."
                            \o toSafeName(IF LastSegment(s.ref) = "" THEN "any"
                                          ELSE LastSegment(s.ref))
       ELSE IF Includes(ancestors, handle) \/ depth > 5
       THEN n.kind = "identifier" /\ n.name = (IF Has(s, "type") THEN s.type ELSE "any")
       ELSE IF Has(s, "enum")
       THEN /\ n.kind = "union"
            /\ Len(n.types) = Len(s.enum)
            /\ \A i \in 1..Len(s.enum) : n.types[i] = literal(s.enum[i])
       ELSE CASE combinator = "anyOf" ->
                    /\ n.kind = "union"
                    /\ Len(n.types) = Len(s.anyOf)
                    /\ \A i \in 1..Len(n.types) : n.types[i].kind # "literal"
              [] combinator = "oneOf" ->
                    /\ n.kind = "union"
                    /\ Len(n.types) = Len(s.oneOf)
                    /\ \A i \in 1..Len(n.types) : n.types[i].kind # "literal"
              [] combinator = "allOf" ->
                    /\ n.kind = "intersection"
                    /\ Len(n.types) = Len(s.allOf)
              [] OTHER -> TypeDispatch(s, n)

\* the schema a call is made on
CalledSchema(call) == Deref(graph, call[1])

\* C20 (as claimed): every node a call of mapSchemaToTypeNode returned is the one its
\* first applicable rule gives, in the order absent schema, reference, guard, enum,
\* anyOf/oneOf, allOf, type: a schema with both oneOf and allOf maps to the union of its
\* oneOf branches, a schema with enum and a combinator to the union of its enum literals.
C20_RulesInClaimedOrder ==
    /\ \A i \in 1..Len(stack) : \A k \in 1..Len(stack[i].kids) :
          LET call == frameCalls(stack[i])[k]
          IN FollowsRules(call[1], call[2], stack[i].depth + 1, stack[i].kids[k],
                          UnionFirstCombinator(CalledSchema(call)))
    /\ MapReturned =>
          FollowsRules(Ptr(1), <<>>, 0, mapOut[1], UnionFirstCombinator(graph[1]))

\* C20 (amended): every node a call of mapSchemaToTypeNode returned is the one its first
\* applicable rule gives, in the order absent schema, reference, guard, enum, anyOf,
\* allOf, oneOf, type: a schema with both oneOf and allOf maps to the intersection of its
\* allOf branches, a schema with enum and a combinator to the union of its enum literals.
C20_RulesInSourceOrder ==
    /\ \A i \in 1..Len(stack) : \A k \in 1..Len(stack[i].kids) :
          LET call == frameCalls(stack[i])[k]
          IN FollowsRules(call[1], call[2], stack[i].depth + 1, stack[i].kids[k],
                          SourceCombinator(CalledSchema(call)))
    /\ MapReturned =>
          FollowsRules(Ptr(1), <<>>, 0, mapOut[1], SourceCombinator(graph[1]))

C20_Witness ==
    /\ MapReturned
    /\ Has(graph[1], "oneOf") /\ Has(graph[1], "allOf") /\ ~Has(graph[1], "anyOf")
    /\ ~Has(graph[1], "enum")
    /\ mapOut[1].kind = "intersection"
    /\ Len(mapOut[1].types) = Len(graph[1].allOf)
    /\ Len(graph[1].allOf) # Len(graph[1].oneOf)

(***************************************************************************)
(* Claims about the dispatch on type                                       *)
(***************************************************************************)
\* the schema of the call falls under the enum rule or the dispatch on type
PlainCall(handle, ancestors, depth) ==
    LET s == Deref(graph, handle)
    IN /\ ~IsUndefined(s)
       /\ ~isSchemaRef(s)
       /\ ~(Includes(ancestors, handle) \/ depth > 5)
       /\ ~Has(s, "anyOf") /\ ~Has(s, "oneOf") /\ ~Has(s, "allOf")

\* node n is what the enum rule or the dispatch on type gives for the call
DispatchedNode(handle, ancestors, depth, n) ==
    LET s == Deref(graph, handle)
        below(kid) == mapSchemaToTypeNode(graph, kid, Append(ancestors, handle), depth + 1)
        type == IF Has(s, "type") THEN s.type ELSE "none"
    IN IF Has(s, "enum")
       THEN /\ n.kind = "union"
            /\ Len(n.types) = Len(s.enum)
            /\ \A i \in 1..Len(s.enum) : n.types[i] = [kind |-> "literal", value |-> s.enum[i]]
       ELSE CASE type = "string" -> n.kind = "identifier" /\ n.name = "string"
              [] type \in {"integer", "number"} -> n.kind = "identifier" /\ n.name = "number"
              [] type = "boolean" -> n.kind = "identifier" /\ n.name = "boolean"
              [] type = "array" ->
                    /\ n.kind = "array"
                    /\ n.element = below(IF Has(s, "items") THEN s.items ELSE Undefined)
              [] type = "object" /\ Has(s, "properties") ->
                    /\ n.kind = "object"
                    /\ Len(n.properties) = Len(s.properties)
                    /\ \A i \in 1..Len(s.properties) :
                          /\ n.properties[i][1] = s.properties[i][1]
                          /\ n.properties[i][2] = below(s.properties[i][2])
                    /\ n.required = (IF Has(s, "required") THEN s.required ELSE <<>>)
              [] type = "object" /\ ~Has(s, "properties") ->
                    n.kind = "identifier" /\ n.name = "{ [key: string]: any }"
              [] OTHER -> n.kind = "identifier" /\ n.name = "any"

\* the call below an array or an object is given the ancestors extended by that schema
ExtendsAncestors(i) ==
    LET s == Deref(graph, stack[i].handle)
    IN (PlainCall(stack[i].handle, stack[i].ancestors, stack[i].depth) /\ ~Has(s, "enum")) =>
          /\ stack[i + 1].ancestors = Append(stack[i].ancestors, stack[i].handle)
          /\ stack[i + 1].depth = stack[i].depth + 1

AnyNode == [kind |-> "identifier", name |-> "any", nullable |-> FALSE]

KnownTypes == {"string", "integer", "number", "boolean", "array", "object"}

\* node n is the fallback claimed for the call, when its schema is malformed
FallbackNode(handle, ancestors, depth, n) ==
    LET s == Deref(graph, handle)
        segment == LastSegment(s.ref)
    IN /\ IsUndefined(s) => n = AnyNode
       /\ (Has(s, "ref") /\ s.ref # "") =>
             /\ n.kind = "identifier"
             /\ n.name = "Components.Schemas."
                             \o toSafeName(IF segment = "" THEN "any" ELSE segment)
       /\ (PlainCall(handle, ancestors, depth) /\ ~Has(s, "enum")) =>
             /\ (~Has(s, "type") \/ s.type \notin KnownTypes) =>
                   n.kind = "identifier" /\ n.name = "any"
             /\ (Has(s, "type") /\ s.type = "array" /\ ~Has(s, "items")) =>
                   n.kind = "array" /\ n.element = AnyNode

FallbacksGiven ==
    /\ \A i \in 1..Len(stack) : \A k \in 1..Len(stack[i].kids) :
          LET call == frameCalls(stack[i])[k]
          IN FallbackNode(call[1], call[2], stack[i].depth + 1, stack[i].kids[k])
    /\ MapReturned => FallbackNode(Ptr(1), <<>>, 0, mapOut[1])

C23_ProcessingHoldsCurrentName ==
    /\ pc \in {"renderZod", "processing.delete"} => processing = {ZodItem.name}
    /\ pc = "processing.add" => processing = {}
    /\ pc = "returned" =>
          /\ processing = {}
          /\ out.components = renderZodComponents(components)

C23_Witness ==
    /\ pc = "processing.delete"
    /\ Len(history) = 1
    /\ processing = {"NodeA"}
    /\ zodOut.str = "z.array(z.lazy(() => NodeASchema))"

(***************************************************************************)
(* Claims about the parameters of an operation                             *)
(***************************************************************************)
HintMarker == "@TypeHint"

IsHint(p) == EndsWith(p.name, HintMarker)

DeclaredOf(d) == IF Has(d, "parameters") THEN d.parameters ELSE <<>>

\* the declared parameters of location that are no hints, in declaration order
KeptIn(d, location) ==
    SelectSeq(DeclaredOf(d), LAMBDA p : ~IsHint(p) /\ p.in = location)

ParamsOfGroup(group) == [i \in 1..Len(group) |-> group[i].param]

Locations == {"path", "query", "header", "cookie"}

OperationsBuilt == pc \notin {"idle", "parseArgs", "loadSpec", "generateIROperations"}

\* C24: generateIROperations drops every parameter whose name ends with '@TypeHint' and
\* places every other parameter in exactly the one group (path, query, header, cookie)
\* of its location, in declaration order; no hint parameter is in a group, in the
\* Parameters namespace or in PathParameters/QueryParameters.
C24_HintsDroppedOthersGrouped ==
    /\ OperationsBuilt =>
          \A k \in 1..Len(operations) :
             LET d == DocOperationOf(operations[k])
             IN /\ DOMAIN operations[k].parameters = Locations
                /\ \A g \in Locations :
                      ParamsOfGroup(operations[k].parameters[g]) = KeptIn(d, g)
    /\ Finished =>
          \A t \in DocOperations : \A i \in 1..Len(DeclaredOf(t[3])) :
             LET p == DeclaredOf(t[3])[i]
             IN IsHint(p) =>
                   /\ ~Contains(out.combined, p.name)
                   /\ ~Contains(out.combined, "TypeHint")

C24_Witness ==
    /\ Finished
    /\ Len(operations) = 2
    /\ Len(DeclaredOf(DocOperationOf(operations[2]))) = 7
    /\ Len(operations[2].parameters.path) = 1
    /\ Len(operations[2].parameters.query) = 2
    /\ Len(operations[2].parameters.header) = 1
    /\ Len(operations[2].parameters.cookie) = 1
    /\ Contains(out.paths, "sort?: Parameters.Sort;\n    limit?: Parameters.Limit;")

(***************************************************************************)
(* Claims about the names of the identifiers the mapper returns            *)
(***************************************************************************)
ValidTypeName(name) ==
    \/ name \in {"string", "number", "boolean", "any", "{ [key: string]: any }"}
    \/ StartsWith(name, "Components.Schemas.") /\ Len(name) > Len("Components.Schemas.")

RECURSIVE NamesValid(_)
NamesValid(n) ==
    CASE n.kind = "identifier" -> ValidTypeName(n.name)
      [] n.kind = "array" -> NamesValid(n.element)
      [] n.kind \in {"union", "intersection"} ->
            \A i \in 1..Len(n.types) : NamesValid(n.types[i])
      [] n.kind = "object" -> \A i \in 1..Len(n.properties) : NamesValid(n.properties[i][2])
      [] OTHER -> TRUE

\* C25 (as claimed): every identifier in the node mapSchemaToTypeNode returns, the
\* fallback of the cycle/depth guard included, is named 'string', 'number', 'boolean',
\* 'any', '{ [key: string]: any }' or 'Components.Schemas.<name>'.
C25_IdentifierNamesAreTypes == MapReturned => NamesValid(mapOut[1])

(***************************************************************************)
(* Claims about the constants the validators refer to                      *)
(***************************************************************************)
\* the identifier names of n that renderZod emits as a reference to a constant
RECURSIVE ReferencedNames(_)
ReferencedNames(n) ==
    CASE n.kind = "identifier" ->
            IF n.name \in {"string", "number", "boolean", "{ [key: string]: any }"}
            THEN {} ELSE {n.name}
      [] n.kind = "array" -> ReferencedNames(n.element)
      [] n.kind \in {"union", "intersection"} ->
            UNION {ReferencedNames(n.types[i]) : i \in 1..Len(n.types)}
      [] n.kind = "object" ->
            UNION {ReferencedNames(n.properties[i][2]) : i \in 1..Len(n.properties)}
      [] OTHER -> {}

DeclaredConstant(name) ==
    \E j \in 1..Len(components) : name = "Components.Schemas." \o components[j].name

\* C26 (as claimed): every '<Name>Schema' constant that a validator emitted by
\* renderZodComponents refers to is the constant of a component declared in the same
\* output; an identifier 'any', mapped from an untyped or absent schema, yields no
\* reference to an undeclared constant.
C26_ValidatorsReferToDeclared ==
    (Finished /\ zodOf(opts)) =>
        /\ ~Contains(out.components, "anySchema")
        /\ \A i \in 1..Len(components) : \A m \in ReferencedNames(components[i].type) :
              Contains(ValidatorBody(components[i].name), m \o "Schema") => DeclaredConstant(m)

(***************************************************************************)
(* Claims about intersections of fewer than two branches                   *)
(***************************************************************************)
\* C27 (as claimed): renderZod returns a string without raising for every intersection
\* node that mapSchemaToTypeNode can produce, the node of an allOf with one branch or
\* with none included, and the string holds the validator of every branch present.
C27_IntersectionNeverRaises ==
    (zodOut.done /\ node.kind = "intersection") =>
        /\ ~zodOut.threw
        /\ \A i \in 1..Len(node.types) :
              ~renderZodThrows(node.types[i]) =>
                  Contains(zodOut.str, renderZod(node.types[i], processing))

(***************************************************************************)
(* Claims about the right-hand sides of the declarations                   *)
(***************************************************************************)
\* C28 (as claimed): every type declaration that renderPaths and renderComponents emit
\* has a type on its right-hand side: 'export type $<status> = ...' of a response whose
\* content map has no entries is not empty, and a schema whose enum, anyOf or oneOf list
\* is empty does not render to the empty string.
C28_DeclarationsHaveAType ==
    Finished =>
        /\ ~Contains(out.paths, " = ;")
        /\ ~Contains(out.components, " = \n")
        /\ \A i \in 1..Len(components) : renderType(components[i].type) # ""

(***************************************************************************)
(* Claims about the names declared in a Parameters namespace               *)
(***************************************************************************)
\* the parameters declared in the Parameters namespace of an operation
NamespaceParams(op) == op.parameters.path \o op.parameters.query

\* the head of the declaration renderPaths makes for a parameter
DeclarationHead(p) ==
    IF StartsLikeIdentifier(p.typeName)
    THEN "export type " \o p.typeName \o " = "
    ELSE "export interface Param_" \o toSafeName(p.typeName) \o " {"

\* the text emitted for an operation up to its Responses namespace
NamespaceText(op) ==
    Between(out.paths, "export namespace " \o upperFirst(op.id) \o " {",
            "export namespace Responses {")

\* C29 (as claimed): within the Parameters namespace of one operation the declared names
\* are pairwise distinct, each declared once, so that every PathParameters and
\* QueryParameters member refers to the declaration of its own parameter: a path and a
\* query parameter of one name, or two parameters whose names sanitize to one identifier,
\* do not share or redeclare a name.
C29_ParameterNamesDistinct ==
    Finished =>
        \A k \in 1..Len(operations) :
           LET ps == NamespaceParams(operations[k])
           IN /\ \A i \in 1..Len(ps) : \A j \in (i + 1)..Len(ps) :
                    DeclarationHead(ps[i]) # DeclarationHead(ps[j])
              /\ \A i \in 1..Len(ps) :
                    Occurrences(NamespaceText(operations[k]), DeclarationHead(ps[i])) = 1

(***************************************************************************)
(* Claims about the grouping that renderType keeps                         *)
(***************************************************************************)
TypeReturned == tsOut # <<>>

IsGroup(n) == n.kind \in {"union", "intersection"}

\* the union of a and the intersection of b and c: the other nesting of a | b & c
OtherNesting(n) ==
    union(<<n.types[1].types[1], intersection(<<n.types[1].types[2], n.types[2]>>)>>)

\* C30 (as claimed): renderType keeps the grouping of the tree: an array whose element is
\* a union or an intersection is rendered '(<element>)[]', and an intersection with a
\* union of two or more types among its branches keeps that union grouped, so that the
\* intersection of (a | b) and c does not render to the string of the union of a and
\* (b & c).
C30_GroupingKept ==
    TypeReturned =>
        /\ (node.kind = "array" /\ IsGroup(node.element)) =>
              tsOut[1] = "(" \o renderType(node.element) \o ")[]"
        /\ node.kind = "intersection" =>
              /\ \A i \in 1..Len(node.types) :
                    (node.types[i].kind = "union" /\ Len(node.types[i].types) >= 2
                        /\ Len(node.types) >= 2) =>
                       Contains(tsOut[1], "(" \o renderType(node.types[i]) \o ")")
              /\ (Len(node.types) = 2 /\ node.types[1].kind = "union"
                     /\ Len(node.types[1].types) = 2) =>
                    tsOut[1] # renderType(OtherNesting(node))

====
